---- MODULE Spec2Model ----
(***************************************************************************)
(* Model of the onboarding flow engine, class AIService of                 *)
(* src/services/aiService.ts: a cursor (currentStepIndex) over a fixed     *)
(* script of five steps, each carrying a completed flag and an optional    *)
(* answer.  Every public method is one action.  Array positions are        *)
(* 0-based in the source and 1-based here: the source's                    *)
(* onboardingSteps[i] is onboardingSteps[i + 1] below.                     *)
(*                                                                         *)
(* Around the engine: processWithAI called without awaiting (SpecAsync),   *)
(* the VoiceOnboardingScreen that drives the engine (SpecScreen) and its   *)
(* remounting (SpecRemount), the VoiceService of the same file             *)
(* (SpecVoice), TokenService.requestToken (SpecToken), and the             *)
(* useLiveKitVoiceAgent hook with the LiveKitVoiceService: its connection  *)
(* (SpecHook), the token request followed into the connection              *)
(* (SpecEndpoint), the data messages it receives (SpecData,                *)
(* SpecMessages), its microphone and the messages it sends (SpecMic).      *)
(* Each specification moves its own variables and leaves the others as     *)
(* Init set them.                                                          *)
(***************************************************************************)
EXTENDS Integers, Sequences, FiniteSets, TLC

VARIABLES
    currentStepIndex,   \* AIService.currentStepIndex
    onboardingSteps,    \* AIService.onboardingSteps
    calls,              \* history: [input, ret] of each processUserResponse call since construction or reset()
    fresh,              \* history: TRUE until the first reset()
    resetRun,           \* history: the cursor positions the reset() calls made in a row just now started from
    seen,               \* history: what each query returned since the last mutating call
    last,               \* history: the call just made: op, arg, ret, the cursor it started from (from),
                        \*          for a query whether it had been asked since the last mutating call (rep),
                        \*          and whether the call raised an error (threw)
    batch,              \* the processWithAI calls issued without awaiting one another, and their promises
    screen,             \* VoiceOnboardingScreen: its React state, the voice service, the handlers in flight
    requests,           \* TokenService: the outcome of each requestToken call made
    hook,               \* useLiveKitVoiceAgent: its state, the connect() attempts in flight, the room
    voice               \* VoiceService: the recording held, isSpeaking, its calls in flight

vars == <<currentStepIndex, onboardingSteps, calls, fresh, resetRun, seen, last,
          batch, screen, requests, hook, voice>>

engine == <<currentStepIndex, onboardingSteps>>

\* The history of the calls made on the engine.
history == <<calls, fresh, resetRun, seen, last>>

(***************************************************************************)
(* Bounds of the exploration.                                              *)
(***************************************************************************)
MaxCalls == 7       \* processUserResponse calls explored between two resets
MaxResetRun == 2    \* consecutive reset() calls explored
MaxConcurrent == 3  \* processWithAI calls in flight at once
MaxTurns == 6       \* recordings started on the voice screen
MaxStarting == 2    \* handleStartRecording calls awaiting the recorder at once
MaxRequests == 2    \* requestToken calls explored
MaxConnects == 3    \* connect() calls of the hook explored
MaxAttempts == 2    \* connect() calls of the hook in flight at once
MaxMessages == 2    \* data payloads the room delivers
MaxToggles == 2     \* toggleMicrophone() calls in flight at once
MaxMounts == 2      \* times VoiceOnboardingScreen is mounted
MaxTasks == 2       \* startRecording and stopRecording calls in flight at once
MaxRecordings == 2  \* recordings created
MaxSpeaks == 3      \* speak calls made

\* The utterances tried as userInput: empty, plain, and padded with blanks.
Inputs == {"", "Alice", " Bob "}

Queries == {"getCurrentQuestion", "isOnboardingComplete", "getProgress"}
ProcessOps == {"processUserResponse", "processWithAI"}

(***************************************************************************)
(* JavaScript values.  An optional string (answer?: string) is <<>> when   *)
(* reading it gives undefined and <<s>> when it holds the string s.  A     *)
(* field never set and a field assigned undefined read alike, and the      *)
(* steps are private to the class and only ever read field by field, so    *)
(* the two are one value here.                                             *)
(***************************************************************************)
Undefined == <<>>
Some(s) == <<s>>

(***************************************************************************)
(* JavaScript numbers are IEEE-754 binary64.  A positive number is         *)
(* [sig, exp]: sig is the 53-bit significand, most significant bit first   *)
(* and leading bit 1, and the value is sig * 2^exp.  Zero has the empty    *)
(* significand.  Division and multiplication compute the exact result and  *)
(* round it once, to nearest, ties to even.  Only positive operands of the *)
(* magnitudes getProgress meets are modelled (no overflow, no subnormals). *)
(***************************************************************************)
Precision == 53

Zero == [sig |-> <<>>, exp |-> 0]

Zeros(k) == [j \in 1..k |-> 0]

AllZero(bits) == \A j \in 1..Len(bits) : bits[j] = 0

\* The integer v >= 0 in binary, most significant bit first, no leading zero.
RECURSIVE IntBits(_)
IntBits(v) == IF v = 0 THEN <<>> ELSE Append(IntBits(v \div 2), v % 2)

\* The integer v in binary on exactly w bits.
BitsOf(v, w) == [j \in 1..w |-> (v \div 2^(w - j)) % 2]

\* The integer a bit string of at most 24 bits stands for.
RECURSIVE Val(_)
Val(bits) ==
    IF Len(bits) = 0 THEN 0
    ELSE IF Len(bits) = 1 THEN bits[1]
    ELSE LET h == Len(bits) \div 2
         IN  Val(SubSeq(bits, 1, h)) * 2^(Len(bits) - h) + Val(SubSeq(bits, h + 1, Len(bits)))

\* bits + 1, as a bit string of the same length, and the carry out of it.
Inc(bits) ==
    IF \A j \in 1..Len(bits) : bits[j] = 1
    THEN [bits |-> Zeros(Len(bits)), carry |-> 1]
    ELSE LET z == CHOOSE j \in 1..Len(bits) :
                      bits[j] = 0 /\ \A k \in (j + 1)..Len(bits) : bits[k] = 1
         IN  [bits |-> [j \in 1..Len(bits) |-> IF j < z THEN bits[j] ELSE IF j = z THEN 1 ELSE 0],
              carry |-> 0]

\* Round to nearest, ties to even: sig holds Precision bits, and the discarded
\* part is "lt", "eq" or "gt" half a unit in the last place ("zero": nothing).
RoundNearestEven(sig, exp, discarded) ==
    LET up == \/ discarded = "gt"
              \/ discarded = "eq" /\ sig[Len(sig)] = 1
    IN  IF ~up THEN [sig |-> sig, exp |-> exp]
        ELSE LET r == Inc(sig)
             IN  IF r.carry = 0 THEN [sig |-> r.bits, exp |-> exp]
                 ELSE [sig |-> <<1>> \o Zeros(Len(sig) - 1), exp |-> exp + 1]

\* The integer v as a number (exact: v has fewer than Precision bits).
FromInt(v) ==
    IF v = 0 THEN Zero
    ELSE LET b == IntBits(v)
         IN  [sig |-> b \o Zeros(Precision - Len(b)), exp |-> Len(b) - Precision]

\* 2^j modulo d, by repeated squaring.
RECURSIVE Pow2Mod(_, _)
Pow2Mod(j, d) ==
    IF j = 0 THEN 1 % d
    ELSE LET h == Pow2Mod(j \div 2, d)
         IN  (h * h * (IF j % 2 = 1 THEN 2 ELSE 1)) % d

\* Long division of r by d, r < d: the remainder after j quotient bits, and
\* quotient bit j (the j-th binary digit of r / d after the point).
RemAfter(r, d, j) == (r * Pow2Mod(j, d)) % d
QuotBit(r, d, j) == IF 2 * RemAfter(r, d, j - 1) >= d THEN 1 ELSE 0

RECURSIVE ScaleUp(_, _, _)
ScaleUp(n, d, s) == IF n >= d THEN <<n, d, s>> ELSE ScaleUp(2 * n, d, s - 1)

RECURSIVE ScaleDown(_, _, _)
ScaleDown(n, d, s) == IF n < 2 * d THEN <<n, d, s>> ELSE ScaleDown(n, 2 * d, s + 1)

\* The exact quotient n / d of integers n >= 1, d >= 1, before rounding: it is
\* scaled by a power of two into [1, 2); then its first Precision bits, the
\* exponent, and the remainder of the division left over.
Quotient(n, d) ==
    LET sc == IF n >= d THEN ScaleDown(n, d, 0) ELSE ScaleUp(n, d, 0)
        r == sc[1] - sc[2]
    IN  [sig |-> <<1>> \o [j \in 1..(Precision - 1) |-> QuotBit(r, sc[2], j)],
         exp |-> sc[3] - (Precision - 1),
         rem |-> RemAfter(r, sc[2], Precision - 1),
         den |-> sc[2]]

\* JavaScript's n / d for integers n >= 0, d >= 1.
NumDiv(n, d) ==
    IF n = 0 THEN Zero
    ELSE LET q == Quotient(n, d)
             discarded == IF q.rem = 0 THEN "zero"
                          ELSE IF 2 * q.rem > q.den THEN "gt"
                          ELSE IF 2 * q.rem = q.den THEN "eq" ELSE "lt"
         IN  RoundNearestEven(q.sig, q.exp, discarded)

\* bits * c as a bit string, for Precision bits and an integer 1 <= c < 128:
\* the significand is cut into limbs of 24, 24 and 5 bits, multiplied limb by
\* limb from the least significant one, the carry moving up.
MulBits(bits, c) ==
    LET n == Len(bits)
        p0 == Val(SubSeq(bits, n - 23, n)) * c
        p1 == Val(SubSeq(bits, n - 47, n - 24)) * c + p0 \div 2^24
        p2 == Val(SubSeq(bits, 1, n - 48)) * c + p1 \div 2^24
    IN  IntBits(p2) \o BitsOf(p1 % 2^24, 24) \o BitsOf(p0 % 2^24, 24)

\* JavaScript's x * c for a number x >= 0 and an integer literal 1 <= c < 128.
NumMul(x, c) ==
    IF x = Zero THEN Zero
    ELSE LET p == MulBits(x.sig, c)
             k == Len(p) - Precision
             tail == SubSeq(p, Precision + 1, Len(p))
             discarded == IF AllZero(tail) THEN "zero"
                          ELSE IF tail[1] = 0 THEN "lt"
                          ELSE IF AllZero(SubSeq(tail, 2, k)) THEN "eq" ELSE "gt"
         IN  RoundNearestEven(SubSeq(p, 1, Precision), x.exp + k, discarded)

\* The real number n / d, n >= 0, d >= 1: whether a binary64 number holds it
\* exactly (IsExact), and then that number (Exact).
IsExact(n, d) == n = 0 \/ Quotient(n, d).rem = 0
Exact(n, d) == IF n = 0 THEN Zero ELSE [sig |-> Quotient(n, d).sig, exp |-> Quotient(n, d).exp]

(***************************************************************************)
(* class AIService                                                         *)
(***************************************************************************)
InitialSteps == <<
    [id |-> "1",
     question |-> "Hello! Welcome to our app. I'm your voice assistant. What's your name?",
     completed |-> FALSE, answer |-> Undefined],
    [id |-> "2",
     question |-> "Nice to meet you! What brings you to our app today?",
     completed |-> FALSE, answer |-> Undefined],
    [id |-> "3",
     question |-> "Great! Are you interested in exploring features like productivity, entertainment, or learning?",
     completed |-> FALSE, answer |-> Undefined],
    [id |-> "4",
     question |-> "Perfect! Would you like to enable notifications to stay updated?",
     completed |-> FALSE, answer |-> Undefined],
    [id |-> "5",
     question |-> "All set! You're ready to get started. Would you like a quick tour of the app?",
     completed |-> FALSE, answer |-> Undefined] >>

\* Variant of getCurrentQuestion: the wrong completion message is returned.
getCurrentQuestion_WrongCompletion ==
    IF currentStepIndex < Len(onboardingSteps)
    THEN onboardingSteps[currentStepIndex + 1].question
    ELSE "Thank you! Your onboarding is complete."

getCurrentQuestion ==
    IF currentStepIndex < Len(onboardingSteps)
    THEN onboardingSteps[currentStepIndex + 1].question
    ELSE "Thank you for completing the onboarding! Let's get started."

\* Variants of processUserResponse with one slip each, used to show that the
\* properties below depend on the method's code.
\* The cursor is incremented after the if block instead of inside it.
processUserResponse_IncrementOutsideGuard(userInput) ==
    IF currentStepIndex < Len(onboardingSteps)
    THEN LET marked == [onboardingSteps EXCEPT ![currentStepIndex + 1].completed = TRUE]
             answered == [marked EXCEPT ![currentStepIndex + 1].answer = Some(userInput)]
             next == currentStepIndex + 1
         IN  [currentStepIndex |-> next,
              onboardingSteps |-> answered,
              ret |-> IF next < Len(answered)
                      THEN answered[next + 1].question
                      ELSE "Wonderful! Your onboarding is complete. Welcome aboard!"]
    ELSE [currentStepIndex |-> currentStepIndex + 1,
          onboardingSteps |-> onboardingSteps,
          ret |-> "Thank you! Your onboarding is complete."]

\* The answer is not stored.
processUserResponse_NoAnswer(userInput) ==
    IF currentStepIndex < Len(onboardingSteps)
    THEN LET marked == [onboardingSteps EXCEPT ![currentStepIndex + 1].completed = TRUE]
             next == currentStepIndex + 1
         IN  [currentStepIndex |-> next,
              onboardingSteps |-> marked,
              ret |-> IF next < Len(marked)
                      THEN marked[next + 1].question
                      ELSE "Wonderful! Your onboarding is complete. Welcome aboard!"]
    ELSE [currentStepIndex |-> currentStepIndex,
          onboardingSteps |-> onboardingSteps,
          ret |-> "Thank you! Your onboarding is complete."]

\* A call made when complete stores its input in the last step.
processUserResponse_OverwriteWhenComplete(userInput) ==
    IF currentStepIndex < Len(onboardingSteps)
    THEN LET marked == [onboardingSteps EXCEPT ![currentStepIndex + 1].completed = TRUE]
             answered == [marked EXCEPT ![currentStepIndex + 1].answer = Some(userInput)]
             next == currentStepIndex + 1
         IN  [currentStepIndex |-> next,
              onboardingSteps |-> answered,
              ret |-> IF next < Len(answered)
                      THEN answered[next + 1].question
                      ELSE "Wonderful! Your onboarding is complete. Welcome aboard!"]
    ELSE [currentStepIndex |-> currentStepIndex,
          onboardingSteps |-> [onboardingSteps EXCEPT ![Len(onboardingSteps)].answer = Some(userInput)],
          ret |-> "Thank you! Your onboarding is complete."]

\* A single completion message serves both the completing call and the later ones.
processUserResponse_OneCompletionMessage(userInput) ==
    IF currentStepIndex < Len(onboardingSteps)
    THEN LET marked == [onboardingSteps EXCEPT ![currentStepIndex + 1].completed = TRUE]
             answered == [marked EXCEPT ![currentStepIndex + 1].answer = Some(userInput)]
             next == currentStepIndex + 1
         IN  [currentStepIndex |-> next,
              onboardingSteps |-> answered,
              ret |-> IF next < Len(answered)
                      THEN answered[next + 1].question
                      ELSE "Wonderful! Your onboarding is complete. Welcome aboard!"]
    ELSE [currentStepIndex |-> currentStepIndex,
          onboardingSteps |-> onboardingSteps,
          ret |-> "Wonderful! Your onboarding is complete. Welcome aboard!"]

\* The answer is stored in the first step instead of the current one.
processUserResponse_AnswerAtFirstStep(userInput) ==
    IF currentStepIndex < Len(onboardingSteps)
    THEN LET marked == [onboardingSteps EXCEPT ![currentStepIndex + 1].completed = TRUE]
             answered == [marked EXCEPT ![1].answer = Some(userInput)]
             next == currentStepIndex + 1
         IN  [currentStepIndex |-> next,
              onboardingSteps |-> answered,
              ret |-> IF next < Len(answered)
                      THEN answered[next + 1].question
                      ELSE "Wonderful! Your onboarding is complete. Welcome aboard!"]
    ELSE [currentStepIndex |-> currentStepIndex,
          onboardingSteps |-> onboardingSteps,
          ret |-> "Thank you! Your onboarding is complete."]

\* The question returned is read before the cursor moves.
processUserResponse_ReturnsCurrentQuestion(userInput) ==
    IF currentStepIndex < Len(onboardingSteps)
    THEN LET marked == [onboardingSteps EXCEPT ![currentStepIndex + 1].completed = TRUE]
             answered == [marked EXCEPT ![currentStepIndex + 1].answer = Some(userInput)]
             next == currentStepIndex + 1
         IN  [currentStepIndex |-> next,
              onboardingSteps |-> answered,
              ret |-> IF next < Len(answered)
                      THEN answered[currentStepIndex + 1].question
                      ELSE "Wonderful! Your onboarding is complete. Welcome aboard!"]
    ELSE [currentStepIndex |-> currentStepIndex,
          onboardingSteps |-> onboardingSteps,
          ret |-> "Thank you! Your onboarding is complete."]

\* String.prototype.trim on the utterances tried.
Trim(s) == IF s = " Bob " THEN "Bob" ELSE s

\* The answer is trimmed before it is stored.
processUserResponse_Trimmed(userInput) ==
    IF currentStepIndex < Len(onboardingSteps)
    THEN LET marked == [onboardingSteps EXCEPT ![currentStepIndex + 1].completed = TRUE]
             answered == [marked EXCEPT ![currentStepIndex + 1].answer = Some(Trim(userInput))]
             next == currentStepIndex + 1
         IN  [currentStepIndex |-> next,
              onboardingSteps |-> answered,
              ret |-> IF next < Len(answered)
                      THEN answered[next + 1].question
                      ELSE "Wonderful! Your onboarding is complete. Welcome aboard!"]
    ELSE [currentStepIndex |-> currentStepIndex,
          onboardingSteps |-> onboardingSteps,
          ret |-> "Thank you! Your onboarding is complete."]

\* processUserResponse(userInput): the fields it leaves and the string it returns.
processUserResponse(userInput) ==
    IF currentStepIndex < Len(onboardingSteps)
    THEN LET marked == [onboardingSteps EXCEPT ![currentStepIndex + 1].completed = TRUE]
             answered == [marked EXCEPT ![currentStepIndex + 1].answer = Some(userInput)]
             next == currentStepIndex + 1
         IN  [currentStepIndex |-> next,
              onboardingSteps |-> answered,
              ret |-> IF next < Len(answered)
                      THEN answered[next + 1].question
                      ELSE "Wonderful! Your onboarding is complete. Welcome aboard!"]
    ELSE [currentStepIndex |-> currentStepIndex,
          onboardingSteps |-> onboardingSteps,
          ret |-> "Thank you! Your onboarding is complete."]

isOnboardingComplete == currentStepIndex >= Len(onboardingSteps)

\* (n / d) * 100 in JavaScript numbers, for the operands the engine can meet.
Percent[n \in 0..(Len(InitialSteps) + MaxCalls + 1), d \in 1..Len(InitialSteps)] ==
    NumMul(NumDiv(n, d), 100)

\* Variant of getProgress: the step is counted from one.
getProgress_OneBased == Percent[currentStepIndex + 1, Len(onboardingSteps)]

\* Variant of getProgress: the share of the steps still to do.
getProgress_Remaining == Percent[Len(onboardingSteps) - currentStepIndex, Len(onboardingSteps)]

getProgress == Percent[currentStepIndex, Len(onboardingSteps)]

\* Variants of reset: the completed flags, or the answers, are left as they are.
reset_KeepCompleted ==
    [currentStepIndex |-> 0,
     onboardingSteps |-> [j \in 1..Len(onboardingSteps) |->
                             [onboardingSteps[j] EXCEPT !.answer = Undefined]]]

reset_KeepAnswers ==
    [currentStepIndex |-> 0,
     onboardingSteps |-> [j \in 1..Len(onboardingSteps) |->
                             [onboardingSteps[j] EXCEPT !.completed = FALSE]]]

\* Variant of reset: the cursor is left where it is.
reset_KeepCursor ==
    [currentStepIndex |-> currentStepIndex,
     onboardingSteps |-> [j \in 1..Len(onboardingSteps) |->
                             [onboardingSteps[j] EXCEPT !.completed = FALSE, !.answer = Undefined]]]

\* reset(): the fields it leaves.
reset ==
    [currentStepIndex |-> 0,
     onboardingSteps |-> [j \in 1..Len(onboardingSteps) |->
                             [onboardingSteps[j] EXCEPT !.completed = FALSE, !.answer = Undefined]]]

\* Reading or writing a field of steps[i] raises a TypeError when the array
\* has no element i.
NoElement(steps, i) == (i + 1) \notin DOMAIN steps

\* getCurrentQuestion() raises when it reaches for a step that is not there.
getCurrentQuestion_raises ==
    /\ currentStepIndex < Len(onboardingSteps)
    /\ NoElement(onboardingSteps, currentStepIndex)

\* Variant: the guard lets the cursor at the end of the script through.
processUserResponse_raises_AtEnd ==
    /\ currentStepIndex <= Len(onboardingSteps)
    /\ \/ NoElement(onboardingSteps, currentStepIndex)
       \/ /\ currentStepIndex + 1 < Len(onboardingSteps)
          /\ NoElement(onboardingSteps, currentStepIndex + 1)

\* processUserResponse raises when the step it marks, or the step whose
\* question it returns, is not there.
processUserResponse_raises ==
    /\ currentStepIndex < Len(onboardingSteps)
    /\ \/ NoElement(onboardingSteps, currentStepIndex)
       \/ /\ currentStepIndex + 1 < Len(onboardingSteps)
          /\ NoElement(onboardingSteps, currentStepIndex + 1)

\* async processWithAI(userInput): the body has no await, so it runs to its end
\* within the call and the promise it returns is already settled: fulfilled
\* with what processUserResponse returned, rejected with what it raised.
processWithAI(userInput) ==
    IF processUserResponse_raises
    THEN [currentStepIndex |-> currentStepIndex,
          onboardingSteps |-> onboardingSteps,
          ret |-> [promise |-> "rejected", value |-> "TypeError"]]
    ELSE LET r == processUserResponse(userInput)
         IN  [currentStepIndex |-> r.currentStepIndex,
              onboardingSteps |-> r.onboardingSteps,
              ret |-> [promise |-> "fulfilled", value |-> r.ret]]

\* No processWithAI call issued yet: the cursor the batch starts from, the
\* inputs issued so far, the promises not yet delivered to their caller.
NoBatch == [from |-> 0, issued |-> <<>>, pending |-> <<>>]

\* VoiceOnboardingScreen once mounted: the state hooks hold their defaults,
\* the voice service holds no recording, and the mount effect has called
\* initializeVoiceAgent, which awaits voiceService.initialize().
\*   init    where initializeVoiceAgent stands
\*   starts  the handleStartRecording calls awaiting voiceService.startRecording(),
\*           each with the engine as it was when the call began (at)
\*   stops   the handleStopRecording calls past their guard: where each stands
\*           (pc), whether the service held a recording when stopRecording was
\*           called (held), the engine when the call began (at), what it awaits
\*   history: recordings, turns (handleStartRecording, handleStopRecording
\*           calls past their guard), aiCalls (processWithAI calls), failed
\*           (the engine at the start of the turn whose I/O failed last),
\*           escaped (an error left a handler), ev (the step just taken)
Mounted ==
    [isInitialized |-> FALSE, isSpeaking |-> FALSE, isProcessing |-> FALSE,
     isRecording |-> FALSE, messages |-> <<>>, progress |-> Zero,
     recording |-> FALSE,
     init |-> "initialize", starts |-> <<>>, stops |-> <<>>,
     recordings |-> 0, turns |-> 0, aiCalls |-> 0, failed |-> Undefined,
     escaped |-> FALSE, mounts |-> 1, ev |-> "mount"]
\* string | null: null reads as no string.
Null == <<>>

\* useLiveKitVoiceAgent at its first render, the effect having registered the
\* three callbacks with the service, and the service as constructed, holding
\* a Room that is not connected.
\*   state     the VoiceAgentState
\*   attempts  the connect() calls in flight: awaiting the token (pc "token")
\*             or livekitService.connect (pc "room")
\*             each with what its token request gave (token, none yet or
\*             some value, which may be undefined), what livekitService.connect
\*             was called with (connectWith, not called yet or some value),
\*             the URL room.connect was called with (url), the response its
\*             token request got where the model follows it (fetched), and
\*             the Room object whose connect it awaits (gen)
\*   room      what the service holds: "none" (null), "unconnected", "connected"
\*   gen       how many Room objects the service has made; the one it holds,
\*             if any, is the last
\*   listeners how many times setupEventListeners has run on that room
\*   mic       the microphone of that room is enabled
\*   closing   a disconnect() call awaits livekitService.disconnect(), which
\*             found a room to disconnect (closingHeld) or none
\*   toggles   the toggleMicrophone() calls in flight: the state each asked
\*             for (newState), and the room the command was given to (target):
\*             "none" when the service held no room, "held" for the room
\*             held, "dropped" once the service has dropped that room
\*   history: connects (connect() calls made), failures (those that failed),
\*             settled (how the promise of the connect() call that ended last
\*             settled), ev (the step just taken), resolved (a call of
\*             livekitService.connect has resolved), raced (disconnect()
\*             was called with a connect() call in flight, and connect() has
\*             not been called since), received (payloads the room delivered),
\*             accepted (those that are agent messages), data (the payload
\*             received last)
FirstRender ==
    [state |-> [isConnected |-> FALSE, isAgentSpeaking |-> FALSE, isMicEnabled |-> FALSE,
                messages |-> <<>>, connectionState |-> "disconnected", error |-> Null],
     attempts |-> <<>>, room |-> "unconnected", gen |-> 1, listeners |-> 0, mic |-> FALSE,
     closing |-> FALSE, closingHeld |-> FALSE, toggles |-> <<>>,
     connects |-> 0, failures |-> 0, settled |-> "none", ev |-> "render",
     resolved |-> FALSE, raced |-> FALSE, received |-> 0, accepted |-> 0, data |-> Undefined]

(***************************************************************************)
(* The calls a driver can make on the engine, one action each.             *)
(***************************************************************************)
\* VoiceService as constructed.
\*   recording   the Recording held (null or its number)
\*   isSpeaking  the field of that name
\*   active      the recordings prepared and not yet unloaded
\*   created     how many recordings have been created
\*   tasks       the startRecording and stopRecording calls in flight: the call
\*               (op), what it awaits (pc: "stopAndUnload" or "create"), and
\*               the recording being stopped (target)
\*   speaks      one entry per speak call: its promise ("pending" or
\*               "resolved") and its utterance: "speaking", "finished",
\*               "stopped" (stopped, no callback of the call is to come) or
\*               "ending" (stopped, a completion callback is still to come)
\*   stopping    stopSpeaking calls awaiting Speech.stop()
\*   history: done (the call that settled last: op, outcome, value, and the
\*               recording held when it was made), ev (the step just taken)
Constructed ==
    [recording |-> Null, isSpeaking |-> FALSE, active |-> {}, created |-> 0,
     tasks |-> <<>>, speaks |-> <<>>, stopping |-> 0,
     done |-> [op |-> "new", outcome |-> "none", value |-> Null, held |-> Null],
     ev |-> "new"]

NoSeen == [q \in Queries |-> Undefined]

\* What the engine's driver leaves alone.
others == <<batch, screen, requests, hook, voice>>

Init ==
    /\ currentStepIndex = 0
    /\ onboardingSteps = InitialSteps
    /\ calls = <<>>
    /\ fresh = TRUE
    /\ resetRun = <<>>
    /\ seen = NoSeen
    /\ last = [op |-> "new", arg |-> Undefined, ret |-> Undefined, from |-> 0, rep |-> FALSE,
               threw |-> FALSE]
    /\ batch = NoBatch
    /\ screen = Mounted
    /\ requests = <<>>
    /\ hook = FirstRender
    /\ voice = Constructed

Asked(q, value) ==
    /\ last' = [op |-> q, arg |-> Undefined, ret |-> value, from |-> currentStepIndex,
                rep |-> seen[q] # Undefined, threw |-> FALSE]
    /\ seen' = [seen EXCEPT ![q] = Some(value)]
    /\ resetRun' = <<>>
    /\ UNCHANGED <<calls, fresh>>
    /\ UNCHANGED others

\* The call raised (or, for processWithAI, returned the rejected promise ret):
\* the engine is as it was.
Raised(op, arg, ret) ==
    /\ last' = [op |-> op, arg |-> arg, ret |-> ret, from |-> currentStepIndex,
                rep |-> FALSE, threw |-> TRUE]
    /\ UNCHANGED <<currentStepIndex, onboardingSteps, calls, fresh, seen, resetRun>>
    /\ UNCHANGED others

\* Variant of the getCurrentQuestion call: it also moves the cursor on, like an
\* iterator's next().
GetCurrentQuestion_Advancing ==
    /\ Asked("getCurrentQuestion", getCurrentQuestion)
    /\ currentStepIndex' = IF currentStepIndex < Len(onboardingSteps)
                           THEN currentStepIndex + 1 ELSE currentStepIndex
    /\ UNCHANGED onboardingSteps

GetCurrentQuestion ==
    IF getCurrentQuestion_raises
    THEN Raised("getCurrentQuestion", Undefined, Undefined)
    ELSE /\ Asked("getCurrentQuestion", getCurrentQuestion)
         /\ UNCHANGED <<currentStepIndex, onboardingSteps>>

IsOnboardingComplete ==
    /\ Asked("isOnboardingComplete", isOnboardingComplete)
    /\ UNCHANGED <<currentStepIndex, onboardingSteps>>

GetProgress ==
    /\ Asked("getProgress", getProgress)
    /\ UNCHANGED <<currentStepIndex, onboardingSteps>>

ProcessUserResponse(userInput) ==
    /\ Len(calls) < MaxCalls
    /\ IF processUserResponse_raises
       THEN Raised("processUserResponse", Some(userInput), Undefined)
       ELSE LET r == processUserResponse(userInput)
            IN  /\ currentStepIndex' = r.currentStepIndex
                /\ onboardingSteps' = r.onboardingSteps
                /\ calls' = Append(calls, [input |-> userInput, ret |-> r.ret])
                /\ last' = [op |-> "processUserResponse", arg |-> Some(userInput),
                            ret |-> r.ret, from |-> currentStepIndex, rep |-> FALSE,
                            threw |-> FALSE]
                /\ seen' = NoSeen
                /\ resetRun' = <<>>
                /\ UNCHANGED fresh
                /\ UNCHANGED others

ProcessWithAI(userInput) ==
    /\ Len(calls) < MaxCalls
    /\ LET r == processWithAI(userInput)
       IN  IF r.ret.promise = "rejected"
           THEN Raised("processWithAI", Some(userInput), r.ret)
           ELSE /\ currentStepIndex' = r.currentStepIndex
                /\ onboardingSteps' = r.onboardingSteps
                /\ calls' = Append(calls, [input |-> userInput, ret |-> r.ret.value])
                /\ last' = [op |-> "processWithAI", arg |-> Some(userInput), ret |-> r.ret,
                            from |-> currentStepIndex, rep |-> FALSE, threw |-> FALSE]
                /\ seen' = NoSeen
                /\ resetRun' = <<>>
                /\ UNCHANGED fresh
                /\ UNCHANGED others

Reset ==
    /\ Len(resetRun) < MaxResetRun
    /\ currentStepIndex' = reset.currentStepIndex
    /\ onboardingSteps' = reset.onboardingSteps
    /\ calls' = <<>>
    /\ fresh' = FALSE
    /\ resetRun' = Append(resetRun, currentStepIndex)
    /\ seen' = NoSeen
    /\ last' = [op |-> "reset", arg |-> Undefined, ret |-> Undefined, from |-> currentStepIndex,
                rep |-> FALSE, threw |-> FALSE]
    /\ UNCHANGED others

Next ==
    \/ GetCurrentQuestion
    \/ IsOnboardingComplete
    \/ GetProgress
    \/ \E userInput \in Inputs : ProcessUserResponse(userInput)
    \/ \E userInput \in Inputs : ProcessWithAI(userInput)
    \/ Reset

Spec == Init /\ [][Next]_vars

(***************************************************************************)
(* processWithAI called without awaiting.  The body of the async function  *)
(* runs within the call; what is left for later is the delivery of the     *)
(* promise to whoever awaits it, a microtask, taken in the order the        *)
(* promises were made.  Calls issued while a promise is still undelivered   *)
(* form one batch.                                                          *)
(***************************************************************************)
\* Variant of the call: the cursor is the one read when the batch began, as if
\* the function had suspended between reading the cursor and writing the step.
IssueProcessWithAI_StaleCursor(userInput) ==
    /\ Len(calls) < MaxCalls
    /\ Len(batch.pending) < MaxConcurrent
    /\ LET begins == batch.pending = <<>>
           base == IF begins THEN currentStepIndex ELSE batch.from
           open == base < Len(onboardingSteps)
           value == IF ~open THEN "Thank you! Your onboarding is complete."
                    ELSE IF base + 1 < Len(onboardingSteps)
                    THEN onboardingSteps[base + 2].question
                    ELSE "Wonderful! Your onboarding is complete. Welcome aboard!"
       IN  /\ currentStepIndex' = IF open THEN base + 1 ELSE currentStepIndex
           /\ onboardingSteps' =
                  IF open
                  THEN [onboardingSteps EXCEPT ![base + 1].completed = TRUE,
                                               ![base + 1].answer = Some(userInput)]
                  ELSE onboardingSteps
           /\ batch' = [from |-> base,
                        issued |-> IF begins THEN <<userInput>>
                                   ELSE Append(batch.issued, userInput),
                        pending |-> Append(batch.pending,
                                           [promise |-> "fulfilled", value |-> value])]
           /\ calls' = Append(calls, [input |-> userInput, ret |-> value])
           /\ last' = [op |-> "processWithAI", arg |-> Some(userInput),
                       ret |-> [promise |-> "fulfilled", value |-> value],
                       from |-> currentStepIndex, rep |-> FALSE, threw |-> FALSE]
    /\ seen' = NoSeen
    /\ resetRun' = <<>>
    /\ UNCHANGED <<fresh, screen, requests, hook, voice>>

\* aiService.processWithAI(userInput) called and not awaited.
IssueProcessWithAI(userInput) ==
    /\ Len(calls) < MaxCalls
    /\ Len(batch.pending) < MaxConcurrent
    /\ LET r == processWithAI(userInput)
           begins == batch.pending = <<>>
       IN  /\ currentStepIndex' = r.currentStepIndex
           /\ onboardingSteps' = r.onboardingSteps
           /\ batch' = [from |-> IF begins THEN currentStepIndex ELSE batch.from,
                        issued |-> IF begins THEN <<userInput>>
                                   ELSE Append(batch.issued, userInput),
                        pending |-> Append(batch.pending, r.ret)]
           /\ calls' = Append(calls, [input |-> userInput, ret |-> r.ret.value])
           /\ last' = [op |-> "processWithAI", arg |-> Some(userInput), ret |-> r.ret,
                       from |-> currentStepIndex, rep |-> FALSE,
                       threw |-> r.ret.promise = "rejected"]
    /\ seen' = NoSeen
    /\ resetRun' = <<>>
    /\ UNCHANGED <<fresh, screen, requests, hook, voice>>

\* The oldest undelivered promise reaches its caller.
DeliverPromise ==
    /\ batch.pending # <<>>
    /\ batch' = [batch EXCEPT !.pending = Tail(@)]
    /\ UNCHANGED <<currentStepIndex, onboardingSteps, calls, fresh, resetRun, seen, last>>
    /\ UNCHANGED <<screen, requests, hook, voice>>

NextAsync ==
    \/ \E userInput \in Inputs : IssueProcessWithAI(userInput)
    \/ DeliverPromise

SpecAsync == Init /\ [][NextAsync]_vars

(***************************************************************************)
(* TokenService.requestToken.  A call is decided by what fetch does and by  *)
(* what the response holds, so it is an operator over that outcome: the     *)
(* rejection of fetch, or the response's status, status text and body.      *)
(* Its result is what the promise settles with: returns with a value, or    *)
(* throws an error.                                                         *)
(***************************************************************************)
BackendUrl == "http://localhost:8000"

Error(message) == [isError |-> TRUE, message |-> message]

\* A value thrown that is not an Error.
NotAnError == [isError |-> FALSE, message |-> ""]

Returns(value) == [returns |-> TRUE, value |-> value, error |-> NotAnError]
Throws(error) == [returns |-> FALSE, value |-> Undefined, error |-> error]

\* String.prototype.includes
Includes(text, part) ==
    \E i \in 1..(Len(text) - Len(part) + 1) : SubSeq(text, i, i + Len(part) - 1) = part

\* response.ok
Ok(status) == 200 <= status /\ status <= 299

\* A body that is no JSON, and a body that is a JSON object with these fields.
NotJson == [json |-> FALSE, token |-> Undefined, url |-> Undefined, detail |-> Undefined]
Json(token, url, detail) == [json |-> TRUE, token |-> token, url |-> url, detail |-> detail]

Rejections ==
    {Error("Failed to fetch"), Error("TypeError: Network request failed"),
     Error("Aborted"), NotAnError}

StatusText ==
    [status \in {200, 201, 401, 404, 500, 503} |->
        CASE status = 200 -> "OK"
          [] status = 201 -> "Created"
          [] status = 401 -> "Unauthorized"
          [] status = 404 -> "Not Found"
          [] status = 500 -> "Internal Server Error"
          [] status = 503 -> ""]

Bodies ==
    {NotJson,
     Json(Some("eyJhbGciOi"), Some("wss://other.livekit.cloud"), Undefined),
     Json(Undefined, Undefined, Undefined),
     Json(Undefined, Undefined, Some("")),
     Json(Undefined, Undefined, Some("Invalid room name")),
     Json(Undefined, Undefined, Some("Failed to fetch room"))}

\* What fetch can do.
Fetched ==
    {[rejects |-> TRUE, error |-> e, status |-> 0, statusText |-> "", body |-> NotJson] :
        e \in Rejections}
    \cup {[rejects |-> FALSE, error |-> NotAnError, status |-> st,
           statusText |-> StatusText[st], body |-> b] :
              st \in DOMAIN StatusText, b \in Bodies}

Guidance ==
    "Cannot connect to backend at " \o BackendUrl \o "\n\n"
    \o "Please ensure:\n"
    \o "1. The FastAPI backend is running\n"
    \o "2. BACKEND_URL is configured correctly\n"
    \o "3. Your device can reach the backend URL\n\n"
    \o "For local development, use ngrok or similar to expose your backend."

\* The try block: fetch, the status check, the body.
requestToken_try(fetched) ==
    IF fetched.rejects THEN Throws(fetched.error)
    ELSE IF ~Ok(fetched.status)
    THEN LET detail == IF fetched.body.json THEN fetched.body.detail ELSE Undefined
         IN  Throws(Error(IF detail # Undefined /\ detail[1] # ""
                          THEN detail[1]
                          ELSE "HTTP " \o ToString(fetched.status) \o ": "
                               \o fetched.statusText))
    ELSE IF ~fetched.body.json THEN Throws(Error("JSON Parse error: Unexpected token"))
    ELSE Returns(fetched.body.token)

\* The catch block.
requestToken_catch(error) ==
    IF error.isError
    THEN IF \/ Includes(error.message, "Failed to fetch")
            \/ Includes(error.message, "Network request failed")
         THEN Throws(Error(Guidance))
         ELSE Throws(error)
    ELSE Throws(Error("Unknown error occurred while requesting token"))

\* Variant of requestToken: the status of the response is not looked at.
requestToken_IgnoresStatus(fetched) ==
    LET tried == IF fetched.rejects THEN Throws(fetched.error)
                 ELSE IF ~fetched.body.json
                 THEN Throws(Error("JSON Parse error: Unexpected token"))
                 ELSE Returns(fetched.body.token)
    IN  IF tried.returns THEN tried ELSE requestToken_catch(tried.error)

requestToken(fetched) ==
    LET tried == requestToken_try(fetched)
    IN  IF tried.returns THEN tried ELSE requestToken_catch(tried.error)

\* What the token service leaves alone.
offToken == <<currentStepIndex, onboardingSteps, calls, fresh, resetRun, seen, last,
              batch, screen, hook, voice>>

\* One requestToken call, from fetch to the settling of its promise.
RequestToken(fetched) ==
    /\ Len(requests) < MaxRequests
    /\ requests' = Append(requests, [fetched |-> fetched, result |-> requestToken(fetched)])
    /\ UNCHANGED offToken

NextToken == \E fetched \in Fetched : RequestToken(fetched)

SpecToken == Init /\ [][NextToken]_vars

(***************************************************************************)
(* useLiveKitVoiceAgent and the LiveKitVoiceService it drives.  connect()   *)
(* runs up to its next await in one step; the token request and the room's  *)
(* connect settle in later steps, and room events and disconnect() come in   *)
(* between.                                                                  *)
(***************************************************************************)
\* The calls in flight but the k-th.
Without(tasks, k) == SubSeq(tasks, 1, k - 1) \o SubSeq(tasks, k + 1, Len(tasks))

\* The state updates of the hook.
connectStarted(prev) == [prev EXCEPT !.error = Null, !.connectionState = "connecting"]

connectSucceeded(prev) == [prev EXCEPT !.isConnected = TRUE, !.connectionState = "connected"]

errorMessage(error) == IF error.isError THEN error.message ELSE "Failed to connect"

\* Variant of the catch of connect(): the phase is left as it is.
connectFailed_KeepsPhase(prev, error) == [prev EXCEPT !.error = Some(errorMessage(error))]

connectFailed(prev, error) ==
    [prev EXCEPT !.error = Some(errorMessage(error)), !.connectionState = "error"]

disconnected(prev) == [prev EXCEPT !.isConnected = FALSE, !.connectionState = "disconnected"]

onConnectionState(prev, connectionState) ==
    [prev EXCEPT !.connectionState = connectionState,
                 !.isConnected = (connectionState = "connected")]

\* Variant of the update below: the list keeps the latest message only.
onMessage_KeepsLatest(prev, message) == [prev EXCEPT !.messages = <<message>>]

\* The update of the message listener.
onMessage(prev, message) == [prev EXCEPT !.messages = Append(@, message)]

\* Variant of the event table: Reconnected is reported under its own name.
RoomEvents_ReconnectedByName ==
    [Connected |-> "connected", Disconnected |-> "disconnected",
     Reconnecting |-> "reconnecting", Reconnected |-> "reconnected"]

\* The connection state each room event is reported as.
RoomEvents ==
    [Connected |-> "connected", Disconnected |-> "disconnected",
     Reconnecting |-> "reconnecting", Reconnected |-> "connected"]

\* What the token request of an attempt can settle with.
Tokens == {Some("eyJhbGciOi.1"), Some("eyJhbGciOi.2"), Undefined}
TokenErrors == {Error(Guidance), Error("HTTP 503: "), Error("Invalid room name")}

\* What room.connect can reject with.
RoomErrors == {Error("could not establish signal connection"), Error(""), NotAnError}

\* LIVEKIT_CONFIG.url, with LIVEKIT_URL not set in the environment.
LIVEKIT_CONFIG_url == "wss://your-livekit-server.livekit.cloud"

\* What the hook leaves alone.
offHook == <<currentStepIndex, onboardingSteps, calls, fresh, resetRun, seen, last,
             batch, screen, requests, voice>>

\* connect(userId), up to await tokenService.requestOnboardingToken(userId).
Connect ==
    /\ hook.connects < MaxConnects
    /\ Len(hook.attempts) < MaxAttempts
    /\ hook' = [hook EXCEPT
                    !.state = connectStarted(@),
                    !.attempts = Append(@, [pc |-> "token", token |-> Undefined,
                                            connectWith |-> Undefined, gen |-> 0,
                                            url |-> Undefined, fetched |-> Undefined]),
                    !.connects = @ + 1,
                    !.raced = FALSE,
                    !.ev = "connect"]
    /\ UNCHANGED offHook

\* Variant of the step below: livekitService.connect gets the token of the
\* connect() call already awaiting the room, as if the token were shared.
TokenResolves_SharedToken(k, token) ==
    /\ hook.attempts[k].pc = "token"
    /\ LET made == hook.room = "none"
           waiting == {j \in 1..Len(hook.attempts) : hook.attempts[j].pc = "room"}
           shared == IF waiting = {} THEN Some(token)
                     ELSE hook.attempts[CHOOSE j \in waiting : TRUE].connectWith
       IN  hook' = [hook EXCEPT
                       !.attempts[k] = [pc |-> "room", token |-> Some(token), connectWith |-> shared,
                                        gen |-> IF made THEN hook.gen + 1 ELSE hook.gen,
                                        url |-> Some(LIVEKIT_CONFIG_url),
                                        fetched |-> Undefined],
                       !.room = IF made THEN "unconnected" ELSE @,
                       !.gen = IF made THEN @ + 1 ELSE @,
                       !.listeners = IF made THEN 0 ELSE @,
                       !.mic = IF made THEN FALSE ELSE @,
                       !.ev = "TokenResolves"]
    /\ UNCHANGED offHook

\* The token request resolved: livekitService.connect(token) is called, makes
\* a Room if the service holds none, and awaits the connect of the room held.
TokenResolves(k, token) ==
    /\ hook.attempts[k].pc = "token"
    /\ LET made == hook.room = "none"
       IN  hook' = [hook EXCEPT
                       !.attempts[k] = [pc |-> "room", token |-> Some(token),
                                        connectWith |-> Some(token),
                                        gen |-> IF made THEN hook.gen + 1 ELSE hook.gen,
                                        url |-> Some(LIVEKIT_CONFIG_url),
                                        fetched |-> Undefined],
                       !.room = IF made THEN "unconnected" ELSE @,
                       !.gen = IF made THEN @ + 1 ELSE @,
                       !.listeners = IF made THEN 0 ELSE @,
                       !.mic = IF made THEN FALSE ELSE @,
                       !.ev = "TokenResolves"]
    /\ UNCHANGED offHook

\* The token request rejected: the catch of connect().
TokenRejects(k, error) ==
    /\ hook.attempts[k].pc = "token"
    /\ hook' = [hook EXCEPT
                    !.state = connectFailed(@, error),
                    !.attempts = Without(@, k),
                    !.failures = @ + 1,
                    !.settled = "fulfilled",
                    !.ev = "TokenRejects"]
    /\ UNCHANGED offHook

\* room.connect resolved: the room is connected (it is the room held unless
\* disconnect() dropped it meanwhile), the service sets up its listeners on
\* the room it holds, if it holds one, and connect() reports the connection.
RoomConnectResolves(k) ==
    /\ hook.attempts[k].pc = "room"
    /\ LET holds == hook.room # "none"
           same == holds /\ hook.attempts[k].gen = hook.gen
       IN  hook' = [hook EXCEPT
                       !.state = connectSucceeded(@),
                       !.attempts = Without(@, k),
                       !.room = IF same THEN "connected" ELSE @,
                       !.listeners = IF holds THEN @ + 1 ELSE @,
                       !.settled = "fulfilled",
                       !.resolved = TRUE,
                       !.ev = "RoomConnectResolves"]
    /\ UNCHANGED offHook

\* room.connect rejected: the service logs and rethrows, and the catch of
\* connect() takes it.
RoomConnectRejects(k, error) ==
    /\ hook.attempts[k].pc = "room"
    /\ hook' = [hook EXCEPT
                    !.state = connectFailed(@, error),
                    !.attempts = Without(@, k),
                    !.failures = @ + 1,
                    !.settled = "fulfilled",
                    !.ev = "RoomConnectRejects"]
    /\ UNCHANGED offHook

\* The room emits a connection event and a listener reports it to the hook.
RoomEvent(event) ==
    /\ hook.room # "none"
    /\ hook.listeners > 0
    /\ hook' = [hook EXCEPT
                    !.state = onConnectionState(@, RoomEvents[event]),
                    !.room = IF event \in {"Connected", "Reconnected"} THEN "connected"
                             ELSE IF event = "Disconnected" THEN "unconnected" ELSE @,
                    !.ev = event]
    /\ UNCHANGED offHook

\* disconnect(), up to await livekitService.disconnect(), which awaits the
\* disconnect of the room held, if any.
Disconnect ==
    /\ ~hook.closing
    /\ hook' = [hook EXCEPT
                    !.closing = TRUE,
                    !.closingHeld = hook.room # "none",
                    !.raced = @ \/ hook.attempts # <<>>,
                    !.ev = "disconnect"]
    /\ UNCHANGED offHook

\* The microphone commands in flight once the service has dropped its room.
Dropped(toggles) ==
    [k \in 1..Len(toggles) |->
        [toggles[k] EXCEPT !.target = IF @ = "held" THEN "dropped" ELSE @]]

\* Variant of the step below: the service keeps the room it has disconnected.
DisconnectResolves_KeepsRoom ==
    /\ hook.closing
    /\ hook' = [hook EXCEPT
                    !.state = disconnected(@),
                    !.room = IF hook.closingHeld /\ @ # "none" THEN "unconnected" ELSE @,
                    !.closing = FALSE,
                    !.closingHeld = FALSE,
                    !.ev = "DisconnectResolves"]
    /\ UNCHANGED offHook

\* livekitService.disconnect() resolved, the room dropped if there was one
\* when it was called.
DisconnectResolves ==
    /\ hook.closing
    /\ hook' = [hook EXCEPT
                    !.state = disconnected(@),
                    !.room = IF hook.closingHeld THEN "none" ELSE @,
                    !.listeners = IF hook.closingHeld THEN 0 ELSE @,
                    !.mic = IF hook.closingHeld THEN FALSE ELSE @,
                    !.toggles = IF hook.closingHeld THEN Dropped(@) ELSE @,
                    !.closing = FALSE,
                    !.closingHeld = FALSE,
                    !.ev = "DisconnectResolves"]
    /\ UNCHANGED offHook

NextHook ==
    \/ Connect
    \/ \E k \in 1..Len(hook.attempts), token \in Tokens : TokenResolves(k, token)
    \/ \E k \in 1..Len(hook.attempts), error \in TokenErrors : TokenRejects(k, error)
    \/ \E k \in 1..Len(hook.attempts) : RoomConnectResolves(k)
    \/ \E k \in 1..Len(hook.attempts), error \in RoomErrors : RoomConnectRejects(k, error)
    \/ \E event \in DOMAIN RoomEvents : RoomEvent(event)
    \/ Disconnect
    \/ DisconnectResolves

SpecHook == Init /\ [][NextHook]_vars

(***************************************************************************)
(* connect() with the token request followed from the response of the      *)
(* backend to the call of room.connect.                                    *)
(***************************************************************************)

\* Variant of the step below: room.connect gets the URL of the response when
\* the response has one.
TokenResponds_UsesSessionUrl(k, fetched) ==
    /\ hook.attempts[k].pc = "token"
    /\ LET result == requestToken(fetched)
           made == hook.room = "none"
       IN  IF result.returns
           THEN hook' = [hook EXCEPT
                            !.attempts[k] = [pc |-> "room", token |-> Some(result.value),
                                             connectWith |-> Some(result.value),
                                             gen |-> IF made THEN hook.gen + 1 ELSE hook.gen,
                                             url |-> IF fetched.body.url # Undefined
                                                     THEN fetched.body.url
                                                     ELSE Some(LIVEKIT_CONFIG_url),
                                             fetched |-> Some(fetched)],
                            !.room = IF made THEN "unconnected" ELSE @,
                            !.gen = IF made THEN @ + 1 ELSE @,
                            !.listeners = IF made THEN 0 ELSE @,
                            !.mic = IF made THEN FALSE ELSE @,
                            !.ev = "TokenResolves"]
           ELSE hook' = [hook EXCEPT
                            !.state = connectFailed(@, result.error),
                            !.attempts = Without(@, k),
                            !.failures = @ + 1,
                            !.settled = "fulfilled",
                            !.ev = "TokenRejects"]
    /\ UNCHANGED offHook

\* The backend answered the token request of a connect() call, or fetch
\* rejected: requestToken settles, and connect() goes on to
\* livekitService.connect(token), which calls room.connect with
\* LIVEKIT_CONFIG.url, or to its catch.
TokenResponds(k, fetched) ==
    /\ hook.attempts[k].pc = "token"
    /\ LET result == requestToken(fetched)
           made == hook.room = "none"
       IN  IF result.returns
           THEN hook' = [hook EXCEPT
                            !.attempts[k] = [pc |-> "room", token |-> Some(result.value),
                                             connectWith |-> Some(result.value),
                                             gen |-> IF made THEN hook.gen + 1 ELSE hook.gen,
                                             url |-> Some(LIVEKIT_CONFIG_url),
                                             fetched |-> Some(fetched)],
                            !.room = IF made THEN "unconnected" ELSE @,
                            !.gen = IF made THEN @ + 1 ELSE @,
                            !.listeners = IF made THEN 0 ELSE @,
                            !.mic = IF made THEN FALSE ELSE @,
                            !.ev = "TokenResolves"]
           ELSE hook' = [hook EXCEPT
                            !.state = connectFailed(@, result.error),
                            !.attempts = Without(@, k),
                            !.failures = @ + 1,
                            !.settled = "fulfilled",
                            !.ev = "TokenRejects"]
    /\ UNCHANGED offHook

NextEndpoint ==
    \/ Connect
    \/ \E k \in 1..Len(hook.attempts), fetched \in Fetched : TokenResponds(k, fetched)
    \/ \E k \in 1..Len(hook.attempts) : RoomConnectResolves(k)
    \/ \E k \in 1..Len(hook.attempts), error \in RoomErrors : RoomConnectRejects(k, error)
    \/ Disconnect
    \/ DisconnectResolves

SpecEndpoint == Init /\ [][NextEndpoint]_vars

(***************************************************************************)
(* Data messages.  A payload is bytes; what the handler can tell apart is  *)
(* whether the decoded text parses as JSON, whether the value parsed has   *)
(* properties (null has none), and its type, text and isFinal.             *)
(***************************************************************************)

Payload(json, type, text, isFinal) ==
    [json |-> json, type |-> type, text |-> text, isFinal |-> isFinal]

Payloads ==
    {Payload("invalid", Undefined, Undefined, Undefined),
     Payload("null", Undefined, Undefined, Undefined),
     Payload("object", Undefined, Some("Hello"), Undefined),
     Payload("object", Some("user_message"), Some("Hello"), Some(TRUE)),
     Payload("object", Some("transcription"), Some("Hello"), Undefined),
     Payload("object", Some("agent_response"), Some("Welcome"), Some(FALSE)),
     Payload("object", Some("agent_response"), Undefined, Some(TRUE))}

\* Variant of the handler below: isFinal absent reads as false.
dataReceived_NotFinalByDefault(payload) ==
    IF payload.json = "invalid" \/ payload.json = "null"
    THEN [forwarded |-> <<>>, logged |-> TRUE, escaped |-> FALSE]
    ELSE IF payload.type = Some("transcription") \/ payload.type = Some("agent_response")
         THEN [forwarded |-> <<[text |-> payload.text,
                                isFinal |-> payload.isFinal = Some(TRUE)]>>,
               logged |-> FALSE, escaped |-> FALSE]
         ELSE [forwarded |-> <<>>, logged |-> FALSE, escaped |-> FALSE]

\* The DataReceived listener: the messages it passes to the message callback,
\* whether it logs an error, whether an error escapes it.  JSON.parse throws
\* on text that is not JSON and message.type throws on null, both inside the
\* try.
dataReceived(payload) ==
    IF payload.json = "invalid" \/ payload.json = "null"
    THEN [forwarded |-> <<>>, logged |-> TRUE, escaped |-> FALSE]
    ELSE IF payload.type = Some("transcription") \/ payload.type = Some("agent_response")
         THEN [forwarded |-> <<[text |-> payload.text,
                                isFinal |-> IF payload.isFinal = Undefined THEN TRUE
                                            ELSE payload.isFinal[1]]>>,
               logged |-> FALSE, escaped |-> FALSE]
         ELSE [forwarded |-> <<>>, logged |-> FALSE, escaped |-> FALSE]

\* The hook's state after each of n listeners has handled the payload.
RECURSIVE Handled(_, _, _)
Handled(prev, payload, n) ==
    IF n = 0 THEN prev
    ELSE LET before == Handled(prev, payload, n - 1)
             out == dataReceived(payload)
         IN  IF out.forwarded = <<>> THEN before ELSE onMessage(before, out.forwarded[1])

\* The connected room delivers a payload: every DataReceived listener set up
\* on it runs.
DataReceived(payload) ==
    /\ hook.room = "connected"
    /\ hook.listeners > 0
    /\ hook.received < MaxMessages
    /\ hook' = [hook EXCEPT
                    !.state = Handled(@, payload, hook.listeners),
                    !.received = @ + 1,
                    !.accepted = @ + Len(dataReceived(payload).forwarded),
                    !.data = Some(payload),
                    !.ev = "DataReceived"]
    /\ UNCHANGED offHook

(***************************************************************************)
(* The microphone and outgoing messages.                                   *)
(***************************************************************************)

\* The update of toggleMicrophone once the command has resolved.
micToggled(prev, newState) == [prev EXCEPT !.isMicEnabled = newState]

\* LiveKitVoiceService.getConnectionState(): room.state of the room held,
\* 'disconnected' when none is held.
getConnectionState ==
    IF hook.room = "none" THEN "disconnected"
    ELSE IF hook.room = "connected" THEN "connected"
    ELSE IF \E k \in 1..Len(hook.attempts) :
                hook.attempts[k].pc = "room" /\ hook.attempts[k].gen = hook.gen
         THEN "connecting"
         ELSE "disconnected"

\* LiveKitVoiceService.isMicrophoneEnabled().
isMicrophoneEnabled == IF hook.room = "none" THEN FALSE ELSE hook.mic

\* toggleMicrophone(), up to await livekitService.setMicrophoneEnabled(newState),
\* which awaits the command on the room held, if any; newState is computed
\* from the isMicEnabled the hook holds at the call.
ToggleMicrophone ==
    /\ Len(hook.toggles) < MaxToggles
    /\ hook' = [hook EXCEPT
                    !.toggles = Append(@, [newState |-> ~hook.state.isMicEnabled,
                                           target |-> IF hook.room = "none" THEN "none"
                                                      ELSE "held"]),
                    !.ev = "toggleMicrophone"]
    /\ UNCHANGED offHook

\* The microphone command resolved (at once when the service held no room):
\* the hook takes newState.  The command acts on the room it was given to.
ToggleResolves(k) ==
    /\ LET toggle == hook.toggles[k]
       IN  hook' = [hook EXCEPT
                       !.state = micToggled(@, toggle.newState),
                       !.mic = IF toggle.target = "held" THEN toggle.newState ELSE @,
                       !.toggles = Without(@, k),
                       !.ev = IF toggle.target = "none" THEN "ToggleResolves, no room"
                              ELSE "ToggleResolves"]
    /\ UNCHANGED offHook

\* The microphone command rejected: the catch of toggleMicrophone logs.
ToggleRejects(k) ==
    /\ hook.toggles[k].target # "none"
    /\ hook' = [hook EXCEPT
                    !.toggles = Without(@, k),
                    !.ev = "ToggleRejects"]
    /\ UNCHANGED offHook

\* sendMessage(text) from call to completion: the service publishes on the
\* room it holds, if any; a publish that rejects is caught and logged.
SendMessage(published) ==
    /\ hook.room = "none" => published
    /\ hook' = [hook EXCEPT
                    !.ev = IF hook.room = "none" THEN "sendMessage, no room"
                           ELSE IF published THEN "sendMessage published"
                           ELSE "sendMessage failed"]
    /\ UNCHANGED offHook

\* The connection steps with one token and one error of each kind, which is
\* all that the steps of messages and microphone can tell apart.
NextConnection ==
    \/ Connect
    \/ \E k \in 1..Len(hook.attempts) : TokenResolves(k, Some("eyJhbGciOi.1"))
    \/ \E k \in 1..Len(hook.attempts) : TokenRejects(k, Error("HTTP 503: "))
    \/ \E k \in 1..Len(hook.attempts) : RoomConnectResolves(k)
    \/ \E k \in 1..Len(hook.attempts) : RoomConnectRejects(k, NotAnError)
    \/ \E event \in DOMAIN RoomEvents : RoomEvent(event)
    \/ Disconnect
    \/ DisconnectResolves

NextToggle ==
    \/ ToggleMicrophone
    \/ \E k \in 1..Len(hook.toggles) : ToggleResolves(k)
    \/ \E k \in 1..Len(hook.toggles) : ToggleRejects(k)

\* The hook with data messages.
NextData ==
    \/ NextConnection
    \/ \E payload \in Payloads : DataReceived(payload)

SpecData == Init /\ [][NextData]_vars

\* The hook with microphone and outgoing messages: connections that succeed,
\* disconnect() and the room disconnecting by itself.
NextMic ==
    \/ Connect
    \/ \E k \in 1..Len(hook.attempts) : TokenResolves(k, Some("eyJhbGciOi.1"))
    \/ \E k \in 1..Len(hook.attempts) : RoomConnectResolves(k)
    \/ RoomEvent("Disconnected")
    \/ Disconnect
    \/ DisconnectResolves
    \/ NextToggle
    \/ \E published \in BOOLEAN : SendMessage(published)

SpecMic == Init /\ [][NextMic]_vars

\* The hook with everything that writes its state: connections that succeed
\* or fail, disconnect(), the room disconnecting by itself, the microphone
\* toggled (one call at a time here), and payloads that are agent messages.
NextMessages ==
    \/ Connect
    \/ \E k \in 1..Len(hook.attempts) : TokenResolves(k, Some("eyJhbGciOi.1"))
    \/ \E k \in 1..Len(hook.attempts) : TokenRejects(k, Error("HTTP 503: "))
    \/ \E k \in 1..Len(hook.attempts) : RoomConnectResolves(k)
    \/ RoomEvent("Disconnected")
    \/ Disconnect
    \/ DisconnectResolves
    \/ hook.toggles = <<>> /\ ToggleMicrophone
    \/ \E k \in 1..Len(hook.toggles) : ToggleResolves(k)
    \/ \E k \in 1..Len(hook.toggles) : ToggleRejects(k)
    \/ DataReceived(Payload("object", Some("transcription"), Some("Hello"), Undefined))
    \/ DataReceived(Payload("object", Some("agent_response"), Some("Welcome"), Some(FALSE)))

SpecMessages == Init /\ [][NextMessages]_vars

(***************************************************************************)
(* VoiceOnboardingScreen.  A handler runs up to its next await in one      *)
(* step; what it awaits settles in a later step, and the presses of the    *)
(* record button come in between in any order.  A state update made by a   *)
(* handler is seen by the next handler called (React has rendered by       *)
(* then).                                                                  *)
(***************************************************************************)
SimulatedUserInput == "This is a simulated response"

EngineNow == [currentStepIndex |-> currentStepIndex, onboardingSteps |-> onboardingSteps]

\* What the screen leaves alone.
offScreen == <<calls, fresh, resetRun, seen, last, batch, requests, hook, voice>>

\* voiceService.initialize() resolved: the welcome message is shown and spoken.
InitializeResolves ==
    /\ screen.init = "initialize"
    /\ screen' = [screen EXCEPT
                      !.isInitialized = TRUE,
                      !.messages = <<[text |-> getCurrentQuestion, isUser |-> FALSE]>>,
                      !.isSpeaking = TRUE,
                      !.init = "speak",
                      !.ev = "InitializeResolves"]
    /\ UNCHANGED engine
    /\ UNCHANGED offScreen

\* voiceService.initialize() rejected: the catch logs and alerts.
InitializeRejects ==
    /\ screen.init = "initialize"
    /\ screen' = [screen EXCEPT
                      !.init = "failed",
                      !.failed = Some(EngineNow),
                      !.escaped = FALSE,
                      !.ev = "InitializeRejects"]
    /\ UNCHANGED engine
    /\ UNCHANGED offScreen

\* The welcome message has been spoken.
InitializeSpoken ==
    /\ screen.init = "speak"
    /\ screen' = [screen EXCEPT
                      !.isSpeaking = FALSE,
                      !.init = "done",
                      !.ev = "InitializeSpoken"]
    /\ UNCHANGED engine
    /\ UNCHANGED offScreen

\* Variant of handleStartRecording: the guard does not look at isProcessing.
HandleStartRecording_IgnoresProcessing ==
    /\ IF ~screen.isInitialized \/ screen.isSpeaking
       THEN screen' = [screen EXCEPT !.ev = "handleStartRecording returned"]
       ELSE /\ screen.recordings < MaxTurns
            /\ Len(screen.starts) < MaxStarting
            /\ screen' = [screen EXCEPT
                              !.isRecording = TRUE,
                              !.starts = Append(@, [at |-> EngineNow]),
                              !.recordings = @ + 1,
                              !.failed = Undefined,
                              !.ev = "handleStartRecording"]
    /\ UNCHANGED engine
    /\ UNCHANGED offScreen

\* handleStartRecording, up to await voiceService.startRecording().
HandleStartRecording ==
    /\ IF ~screen.isInitialized \/ screen.isSpeaking \/ screen.isProcessing
       THEN screen' = [screen EXCEPT !.ev = "handleStartRecording returned"]
       ELSE /\ screen.recordings < MaxTurns
            /\ Len(screen.starts) < MaxStarting
            /\ screen' = [screen EXCEPT
                              !.isRecording = TRUE,
                              !.starts = Append(@, [at |-> EngineNow]),
                              !.recordings = @ + 1,
                              !.failed = Undefined,
                              !.ev = "handleStartRecording"]
    /\ UNCHANGED engine
    /\ UNCHANGED offScreen

\* voiceService.startRecording() resolved: the service holds the new recording.
StartRecordingResolves(k) ==
    /\ screen' = [screen EXCEPT
                      !.recording = TRUE,
                      !.starts = Without(@, k),
                      !.ev = "StartRecordingResolves"]
    /\ UNCHANGED engine
    /\ UNCHANGED offScreen

\* voiceService.startRecording() rejected, before or after it had stopped and
\* unloaded the recording the service held (stopped): the catch resets isRecording.
StartRecordingRejects(k, stopped) ==
    /\ screen' = [screen EXCEPT
                      !.isRecording = FALSE,
                      !.recording = IF stopped THEN FALSE ELSE @,
                      !.starts = Without(@, k),
                      !.failed = Some(screen.starts[k].at),
                      !.escaped = FALSE,
                      !.ev = "StartRecordingRejects"]
    /\ UNCHANGED engine
    /\ UNCHANGED offScreen

\* handleStopRecording, up to await voiceService.stopRecording().
HandleStopRecording ==
    /\ IF ~screen.isRecording
       THEN screen' = [screen EXCEPT !.ev = "handleStopRecording returned"]
       ELSE screen' = [screen EXCEPT
                          !.isRecording = FALSE,
                          !.isProcessing = TRUE,
                          !.stops = Append(@, [pc |-> "stopRecording",
                                               held |-> screen.recording,
                                               at |-> EngineNow,
                                               awaits |-> Undefined]),
                          !.turns = @ + 1,
                          !.ev = "handleStopRecording"]
    /\ UNCHANGED engine
    /\ UNCHANGED offScreen

\* voiceService.stopRecording() resolved (with null when the service held no
\* recording): the user's message is shown and processWithAI is called.
StopRecordingResolves(k) ==
    /\ screen.stops[k].pc = "stopRecording"
    /\ LET r == processWithAI(SimulatedUserInput)
       IN  /\ currentStepIndex' = r.currentStepIndex
           /\ onboardingSteps' = r.onboardingSteps
           /\ screen' = [screen EXCEPT
                             !.recording = IF screen.stops[k].held THEN FALSE ELSE @,
                             !.messages = Append(@, [text |-> SimulatedUserInput,
                                                     isUser |-> TRUE]),
                             !.stops[k].pc = "processWithAI",
                             !.stops[k].awaits = Some(r.ret),
                             !.aiCalls = @ + 1,
                             !.ev = "StopRecordingResolves"]
    /\ UNCHANGED offScreen

\* voiceService.stopRecording() rejected (stopping the held recording failed):
\* the catch resets isProcessing.
StopRecordingRejects(k) ==
    /\ screen.stops[k].pc = "stopRecording"
    /\ screen.stops[k].held
    /\ screen' = [screen EXCEPT
                      !.isProcessing = FALSE,
                      !.stops = Without(@, k),
                      !.failed = Some(screen.stops[k].at),
                      !.escaped = FALSE,
                      !.ev = "StopRecordingRejects"]
    /\ UNCHANGED engine
    /\ UNCHANGED offScreen

\* Variant of the step below: the progress shown is left as it was.
ProcessWithAIDelivered_KeepsProgress(k) ==
    /\ screen.stops[k].pc = "processWithAI"
    /\ LET promise == screen.stops[k].awaits[1]
       IN  IF promise.promise = "fulfilled"
           THEN screen' = [screen EXCEPT
                              !.messages = Append(@, [text |-> promise.value,
                                                      isUser |-> FALSE]),
                              !.isProcessing = FALSE,
                              !.isSpeaking = TRUE,
                              !.stops[k].pc = "speak",
                              !.stops[k].awaits = Undefined,
                              !.ev = "ProcessWithAIDelivered"]
           ELSE screen' = [screen EXCEPT
                              !.isProcessing = FALSE,
                              !.stops = Without(@, k),
                              !.escaped = FALSE,
                              !.ev = "ProcessWithAIDelivered"]
    /\ UNCHANGED engine
    /\ UNCHANGED offScreen

\* The promise of processWithAI is delivered: progress and the agent's message
\* are shown, isProcessing is reset and the message is spoken; a rejected
\* promise goes to the catch.
ProcessWithAIDelivered(k) ==
    /\ screen.stops[k].pc = "processWithAI"
    /\ LET promise == screen.stops[k].awaits[1]
       IN  IF promise.promise = "fulfilled"
           THEN screen' = [screen EXCEPT
                              !.progress = getProgress,
                              !.messages = Append(@, [text |-> promise.value,
                                                      isUser |-> FALSE]),
                              !.isProcessing = FALSE,
                              !.isSpeaking = TRUE,
                              !.stops[k].pc = "speak",
                              !.stops[k].awaits = Undefined,
                              !.ev = "ProcessWithAIDelivered"]
           ELSE screen' = [screen EXCEPT
                              !.isProcessing = FALSE,
                              !.stops = Without(@, k),
                              !.escaped = FALSE,
                              !.ev = "ProcessWithAIDelivered"]
    /\ UNCHANGED engine
    /\ UNCHANGED offScreen

\* The agent's message has been spoken (voiceService.speak never rejects).
ResponseSpoken(k) ==
    /\ screen.stops[k].pc = "speak"
    /\ screen' = [screen EXCEPT
                      !.isSpeaking = FALSE,
                      !.stops = Without(@, k),
                      !.ev = "ResponseSpoken"]
    /\ UNCHANGED engine
    /\ UNCHANGED offScreen

NextScreen ==
    \/ InitializeResolves
    \/ InitializeRejects
    \/ InitializeSpoken
    \/ HandleStartRecording
    \/ \E k \in 1..Len(screen.starts) : StartRecordingResolves(k)
    \/ \E k \in 1..Len(screen.starts), stopped \in BOOLEAN : StartRecordingRejects(k, stopped)
    \/ HandleStopRecording
    \/ \E k \in 1..Len(screen.stops) : StopRecordingResolves(k)
    \/ \E k \in 1..Len(screen.stops) : StopRecordingRejects(k)
    \/ \E k \in 1..Len(screen.stops) : ProcessWithAIDelivered(k)
    \/ \E k \in 1..Len(screen.stops) : ResponseSpoken(k)

SpecScreen == Init /\ [][NextScreen]_vars

\* The screen is unmounted and mounted again, here with no handler in flight:
\* the component state starts over from its useState defaults and the effect
\* calls initializeVoiceAgent again, while aiService and voiceService, created
\* once at module level, stay as they are.
Remount ==
    /\ screen.mounts < MaxMounts
    /\ screen.init \in {"done", "failed"}
    /\ screen.starts = <<>>
    /\ screen.stops = <<>>
    /\ screen' = [Mounted EXCEPT
                      !.recording = screen.recording,
                      !.recordings = screen.recordings,
                      !.turns = screen.turns,
                      !.aiCalls = screen.aiCalls,
                      !.mounts = screen.mounts + 1,
                      !.ev = "remount"]
    /\ UNCHANGED engine
    /\ UNCHANGED offScreen

NextRemount ==
    \/ NextScreen
    \/ Remount

SpecRemount == Init /\ [][NextRemount]_vars

(***************************************************************************)
(* VoiceService.  A call runs to its first await in one step; what it      *)
(* awaits (stopAndUnloadAsync, createAsync, Speech.stop) settles in a      *)
(* later step, and the callbacks of an utterance arrive in steps of their  *)
(* own.                                                                    *)
(***************************************************************************)

\* What VoiceService leaves alone.
offVoice == <<currentStepIndex, onboardingSteps, calls, fresh, resetRun, seen, last,
              batch, screen, requests, hook>>

\* recording.getURI()
getURI(recording) == "file:///cache/recording-" \o ToString(recording) \o ".m4a"

\* How a call settled.
Settles(task, outcome, value) ==
    [op |-> task.op, outcome |-> outcome, value |-> value, held |-> task.held]

\* startRecording(), up to its first await: the stopRecording() of the
\* recording held, or createAsync when none is held.
StartRecording ==
    /\ Len(voice.tasks) < MaxTasks
    /\ voice' = [voice EXCEPT
                     !.tasks = Append(@, IF voice.recording # Null
                                         THEN [op |-> "startRecording", pc |-> "stopAndUnload",
                                               target |-> voice.recording[1],
                                               held |-> voice.recording]
                                         ELSE [op |-> "startRecording", pc |-> "create",
                                               target |-> 0, held |-> Null]),
                     !.ev = "startRecording"]
    /\ UNCHANGED offVoice

\* stopRecording(): null at once when no recording is held, else up to
\* await this.recording.stopAndUnloadAsync().
StopRecording ==
    /\ IF voice.recording = Null
       THEN voice' = [voice EXCEPT
                         !.done = [op |-> "stopRecording", outcome |-> "resolved",
                                   value |-> Null, held |-> Null],
                         !.ev = "stopRecording returned null"]
       ELSE /\ Len(voice.tasks) < MaxTasks
            /\ voice' = [voice EXCEPT
                             !.tasks = Append(@, [op |-> "stopRecording",
                                                  pc |-> "stopAndUnload",
                                                  target |-> voice.recording[1],
                                                  held |-> voice.recording]),
                             !.ev = "stopRecording"]
    /\ UNCHANGED offVoice

\* stopAndUnloadAsync resolved: the recording is unloaded; getURI is read
\* from this.recording, which throws when a call that finished meanwhile has
\* cleared it; else the recording is cleared, and stopRecording returns the
\* URI while startRecording goes on to createAsync.
StopAndUnloadResolves(k) ==
    /\ voice.tasks[k].pc = "stopAndUnload"
    /\ LET task == voice.tasks[k]
       IN  IF voice.recording = Null
           THEN voice' = [voice EXCEPT
                             !.active = @ \ {task.target},
                             !.tasks = Without(@, k),
                             !.done = Settles(task, "rejected", Some("TypeError")),
                             !.ev = "StopAndUnloadResolves"]
           ELSE IF task.op = "stopRecording"
           THEN voice' = [voice EXCEPT
                             !.recording = Null,
                             !.active = @ \ {task.target},
                             !.tasks = Without(@, k),
                             !.done = Settles(task, "resolved",
                                              Some(getURI(voice.recording[1]))),
                             !.ev = "StopAndUnloadResolves"]
           ELSE voice' = [voice EXCEPT
                             !.recording = Null,
                             !.active = @ \ {task.target},
                             !.tasks[k].pc = "create",
                             !.ev = "StopAndUnloadResolves"]
    /\ UNCHANGED offVoice

\* stopAndUnloadAsync rejected: the catch logs and rethrows.
StopAndUnloadRejects(k) ==
    /\ voice.tasks[k].pc = "stopAndUnload"
    /\ voice' = [voice EXCEPT
                     !.tasks = Without(@, k),
                     !.done = Settles(voice.tasks[k], "rejected", Some("Error")),
                     !.ev = "StopAndUnloadRejects"]
    /\ UNCHANGED offVoice

\* createAsync resolved, which expo-av lets happen only while no other
\* recording is prepared: the new recording is held.
CreateResolves(k) ==
    /\ voice.tasks[k].pc = "create"
    /\ voice.active = {}
    /\ voice.created < MaxRecordings
    /\ voice' = [voice EXCEPT
                     !.recording = Some(voice.created + 1),
                     !.active = {voice.created + 1},
                     !.created = @ + 1,
                     !.tasks = Without(@, k),
                     !.done = Settles(voice.tasks[k], "resolved", Null),
                     !.ev = "CreateResolves"]
    /\ UNCHANGED offVoice

\* createAsync rejected: the catch logs and rethrows.
CreateRejects(k) ==
    /\ voice.tasks[k].pc = "create"
    /\ voice' = [voice EXCEPT
                     !.tasks = Without(@, k),
                     !.done = Settles(voice.tasks[k], "rejected", Some("Error")),
                     !.ev = "CreateRejects"]
    /\ UNCHANGED offVoice

\* Speech.stop(): the utterances being spoken end as the platform ends them,
\* with no callback that speak has set (onStopped, on iOS and Android) or
\* with a completion callback still to come.
Interrupted(speaks, how) ==
    [k \in 1..Len(speaks) |->
        [speaks[k] EXCEPT !.utterance = IF @ = "speaking" THEN how ELSE @]]

\* speak(text): the executor of the promise runs at once.
Speak(how) ==
    /\ Len(voice.speaks) < MaxSpeaks
    /\ ~voice.isSpeaking => how = "stopped"
    /\ voice' = [voice EXCEPT
                     !.speaks = Append(IF voice.isSpeaking THEN Interrupted(@, how) ELSE @,
                                       [promise |-> "pending", utterance |-> "speaking"]),
                     !.isSpeaking = TRUE,
                     !.ev = "speak"]
    /\ UNCHANGED offVoice

\* onDone or onError of the utterance of speak call k.
UtteranceCallback(k, callback) ==
    /\ voice.speaks[k].utterance \in {"speaking", "ending"}
    /\ voice' = [voice EXCEPT
                     !.isSpeaking = FALSE,
                     !.speaks[k] = [promise |-> "resolved", utterance |-> "finished"],
                     !.ev = callback]
    /\ UNCHANGED offVoice

\* stopSpeaking(), up to await Speech.stop(); it returns at once when
\* isSpeaking is false.
StopSpeaking(how) ==
    /\ IF voice.isSpeaking
       THEN /\ voice.stopping < MaxTasks
            /\ voice' = [voice EXCEPT
                             !.speaks = Interrupted(@, how),
                             !.stopping = @ + 1,
                             !.ev = "stopSpeaking"]
       ELSE /\ how = "stopped"
            /\ voice' = [voice EXCEPT !.ev = "stopSpeaking returned"]
    /\ UNCHANGED offVoice

\* Speech.stop() resolved: stopSpeaking clears isSpeaking.
StopSpeakingResolves ==
    /\ voice.stopping > 0
    /\ voice' = [voice EXCEPT
                     !.isSpeaking = FALSE,
                     !.stopping = @ - 1,
                     !.ev = "StopSpeakingResolves"]
    /\ UNCHANGED offVoice

NextVoice ==
    \/ StartRecording
    \/ StopRecording
    \/ \E k \in 1..Len(voice.tasks) : StopAndUnloadResolves(k)
    \/ \E k \in 1..Len(voice.tasks) : StopAndUnloadRejects(k)
    \/ \E k \in 1..Len(voice.tasks) : CreateResolves(k)
    \/ \E k \in 1..Len(voice.tasks) : CreateRejects(k)
    \/ \E how \in {"stopped", "ending"} : Speak(how)
    \/ \E k \in 1..Len(voice.speaks), callback \in {"onDone", "onError"} :
           UtteranceCallback(k, callback)
    \/ \E how \in {"stopped", "ending"} : StopSpeaking(how)
    \/ StopSpeakingResolves

SpecVoice == Init /\ [][NextVoice]_vars

(***************************************************************************)
(* Properties.                                                             *)
(***************************************************************************)
\* What a processUserResponse call handed back: processWithAI wraps it in a promise.
Returned(l) == IF l.op = "processWithAI" THEN l.ret.value ELSE l.ret

JustCompleted == "Wonderful! Your onboarding is complete. Welcome aboard!"
AlreadyComplete == "Thank you! Your onboarding is complete."
CompletionPrompt == "Thank you for completing the onboarding! Let's get started."

\* C1: in every reachable state 0 <= currentStepIndex <= len(onboardingSteps),
\* and the script has 5 steps.
C1_CursorInRange ==
    /\ 0 <= currentStepIndex
    /\ currentStepIndex <= Len(onboardingSteps)
    /\ Len(onboardingSteps) = 5

\* A call through processWithAI made when the cursor already stood at the end.
C1_Witness ==
    /\ last.op = "processWithAI"
    /\ last.from = Len(onboardingSteps)
    /\ currentStepIndex = Len(onboardingSteps)

\* C2: in every reachable state the completed flags are exactly those of the
\* steps below the cursor.
C2_CompletedIsPrefix ==
    \A j \in 1..Len(onboardingSteps) :
        onboardingSteps[j].completed <=> (j - 1 < currentStepIndex)

\* Two answers given after a reset() that followed a completed run.
C2_Witness ==
    /\ ~fresh
    /\ currentStepIndex = 2
    /\ last.op \in ProcessOps

\* C3: a processUserResponse(userText) call made with the cursor at i < len
\* leaves step i completed with answer userText and the cursor at i + 1.
C3_AnswerRecorded ==
    (last.op \in ProcessOps /\ last.from < Len(onboardingSteps)) =>
        /\ onboardingSteps[last.from + 1].completed = TRUE
        /\ onboardingSteps[last.from + 1].answer = last.arg
        /\ currentStepIndex = last.from + 1

\* The empty answer given to the third question.
C3_Witness ==
    /\ last.op = "processUserResponse"
    /\ last.from = 2
    /\ last.arg = Some("")
    /\ onboardingSteps[3].answer = Some("")

\* C4: a processUserResponse call made when isOnboardingComplete() holds
\* changes neither the cursor, nor getProgress(), nor any step, and returns
\* "Thank you! Your onboarding is complete.".
C4_TerminalIdempotent ==
    [][(isOnboardingComplete /\ last'.op \in ProcessOps) =>
          /\ currentStepIndex' = currentStepIndex
          /\ onboardingSteps' = onboardingSteps
          /\ getProgress' = getProgress
          /\ Returned(last') = AlreadyComplete]_vars

\* The second call made after completion.
C4_Witness ==
    /\ isOnboardingComplete
    /\ last.op \in ProcessOps
    /\ last.from = Len(onboardingSteps)
    /\ Len(calls) = Len(onboardingSteps) + 2

\* C5: a call made while not complete returns the question of the step at the
\* new cursor, or "Wonderful! ..." when the new cursor is len; that message is
\* returned by the call that moves the cursor to len and by no other, so at
\* most once between two resets.
C5_ReturnedPrompt ==
    /\ last.op \in ProcessOps =>
          /\ last.from < Len(onboardingSteps) =>
                Returned(last) = IF currentStepIndex < Len(onboardingSteps)
                                 THEN onboardingSteps[currentStepIndex + 1].question
                                 ELSE JustCompleted
          /\ Returned(last) = JustCompleted <=>
                (last.from < Len(onboardingSteps) /\ currentStepIndex = Len(onboardingSteps))
    /\ Cardinality({k \in 1..Len(calls) : calls[k].ret = JustCompleted}) <= 1

\* A run completed for the second time, after a reset(), and called once more.
C5_Witness ==
    /\ ~fresh
    /\ Len(calls) = Len(onboardingSteps) + 1
    /\ calls[Len(onboardingSteps)].ret = JustCompleted
    /\ Returned(last) = AlreadyComplete

\* The real number 100 * n / d, for the operands the engine can meet.
RealPercent[n \in 0..(Len(InitialSteps) + MaxCalls + 1), d \in 1..Len(InitialSteps)] ==
    [exact |-> IsExact(100 * n, d), value |-> Exact(100 * n, d)]

\* C6: after exactly n <= len processUserResponse calls on a fresh engine,
\* getProgress() is the real number 100 * n / len, with no rounding error, and
\* isOnboardingComplete() is (n = len).
C6_ProgressAfterNCalls ==
    (fresh /\ Len(calls) <= Len(onboardingSteps)) =>
        LET n == Len(calls)
            real == RealPercent[n, Len(onboardingSteps)]
        IN  /\ real.exact
            /\ getProgress = real.value
            /\ isOnboardingComplete <=> (n = Len(onboardingSteps))

\* getProgress() asked after three answers on a fresh engine gave 60.
C6_Witness ==
    /\ fresh
    /\ Len(calls) = 3
    /\ last.op = "getProgress"
    /\ last.ret = FromInt(60)

\* C7 (state part): on a fresh engine the k-th call's input is the answer of
\* step k - 1 and of no other step; steps not reached yet have no answer.
C7_InCallOrder ==
    fresh =>
        \A j \in 1..Len(onboardingSteps) :
            onboardingSteps[j].answer =
                IF j <= Len(calls) THEN Some(calls[j].input) ELSE Undefined

\* C7 (step part): a processUserResponse call leaves every answer recorded
\* before it where it was.
C7_NoOverwrite ==
    last'.op \in ProcessOps =>
        \A j \in 1..Len(onboardingSteps) :
            onboardingSteps[j].answer # Undefined =>
                onboardingSteps'[j].answer = onboardingSteps[j].answer

\* C7: answers are recorded in call order, one step per call, and a recorded
\* answer is never overwritten or moved by a later processUserResponse call.
C7_AnswersInOrder == []C7_InCallOrder /\ [][C7_NoOverwrite]_vars

\* Six calls on a fresh engine whose inputs differ from one call to the next.
C7_Witness ==
    /\ fresh
    /\ Len(calls) = Len(onboardingSteps) + 1
    /\ \A k \in 1..Len(onboardingSteps) : calls[k].input # calls[k + 1].input
    /\ onboardingSteps[Len(onboardingSteps)].answer # Some(last.arg[1])

\* C8: getCurrentQuestion() is the question of the step at the cursor while
\* the cursor is below len, and the completion prompt when it is at len.
C8_CurrentPrompt ==
    LET expected == IF currentStepIndex < Len(onboardingSteps)
                    THEN InitialSteps[currentStepIndex + 1].question
                    ELSE CompletionPrompt
    IN  /\ getCurrentQuestion = expected
        /\ last.op = "getCurrentQuestion" => last.ret = expected

\* getCurrentQuestion() asked of a completed engine.
C8_Witness ==
    /\ last.op = "getCurrentQuestion"
    /\ currentStepIndex = Len(onboardingSteps)
    /\ last.ret = CompletionPrompt

\* C9: a getCurrentQuestion, isOnboardingComplete or getProgress call changes
\* neither the cursor nor any step, and returns what the same query returned
\* since the last processUserResponse or reset call.
C9_QueriesArePure ==
    [][last'.op \in Queries =>
          /\ currentStepIndex' = currentStepIndex
          /\ onboardingSteps' = onboardingSteps
          /\ seen[last'.op] # Undefined => last'.ret = seen[last'.op][1]]_vars

\* getProgress() asked again, after the two other queries, of a half-answered engine.
C9_Witness ==
    /\ last.op = "getProgress"
    /\ last.rep
    /\ \A q \in Queries : seen[q] # Undefined
    /\ currentStepIndex = 2

\* C10: a reset() call made in any reachable state leaves the cursor at 0 and
\* every step not completed and without answer, which is the initial state;
\* so does a second reset() made right after it.
C10_ResetRestoresInitial ==
    last.op = "reset" =>
        /\ currentStepIndex = 0
        /\ \A j \in 1..Len(onboardingSteps) :
              /\ onboardingSteps[j].completed = FALSE
              /\ onboardingSteps[j].answer = Undefined
        /\ onboardingSteps = InitialSteps

\* reset() called on a completed engine, and once more right after.
C10_Witness ==
    /\ last.op = "reset"
    /\ Len(resetRun) = 2
    /\ resetRun[1] = Len(onboardingSteps)
    /\ resetRun[2] = 0

\* C11 (state part): no operation alters the prompts or their order, and an
\* engine that has answered nothing since construction or since reset() is at
\* the first prompt.
C11_ScriptUnaltered ==
    /\ \A j \in 1..Len(InitialSteps) :
          /\ onboardingSteps[j].id = InitialSteps[j].id
          /\ onboardingSteps[j].question = InitialSteps[j].question
    /\ Len(onboardingSteps) = Len(InitialSteps)
    /\ (fresh /\ calls = <<>>) => getCurrentQuestion = InitialSteps[1].question

\* C11 (step part): getCurrentQuestion() called right after reset() returns
\* the first prompt.
C11_FirstPromptAfterReset ==
    (last.op = "reset" /\ last'.op = "getCurrentQuestion") =>
        last'.ret = InitialSteps[1].question

\* C11: reset() followed by getCurrentQuestion() returns the first prompt, as
\* on a fresh engine, and the prompts and their order are never altered.
C11_ResetThenFirstPrompt == []C11_ScriptUnaltered /\ [][C11_FirstPromptAfterReset]_vars

\* getCurrentQuestion() asked first thing after a reset().
C11_Witness ==
    /\ ~fresh
    /\ calls = <<>>
    /\ last.op = "getCurrentQuestion"
    /\ ~last.rep
    /\ seen = [NoSeen EXCEPT !["getCurrentQuestion"] = Some(InitialSteps[1].question)]

Twenty == FromInt(20)
Hundred == FromInt(100)

\* The steps after the calls of the log, each answering one step in turn.
StepsAfter(log) ==
    [j \in 1..Len(InitialSteps) |->
        IF j <= Len(log)
        THEN [InitialSteps[j] EXCEPT !.completed = TRUE, !.answer = Some(log[j].input)]
        ELSE InitialSteps[j]]

\* C12: on a fresh engine getCurrentQuestion() is "Hello! ..."; then
\* processUserResponse("Alice") returns "Nice to meet you! ..." and leaves
\* getProgress() at 20; after five calls the engine is complete, at 100, and
\* the fifth call returned "Wonderful! ..."; a sixth call returns
\* "Thank you! ..." and leaves the state of the fifth.
C12_FiveStepScenario ==
    fresh =>
        /\ calls = <<>> =>
              getCurrentQuestion =
                  "Hello! Welcome to our app. I'm your voice assistant. What's your name?"
        /\ (Len(calls) = 1 /\ calls[1].input = "Alice") =>
              /\ calls[1].ret = "Nice to meet you! What brings you to our app today?"
              /\ getProgress = Twenty
        /\ Len(calls) >= 5 =>
              /\ calls[5].ret = "Wonderful! Your onboarding is complete. Welcome aboard!"
              /\ isOnboardingComplete = TRUE
              /\ getProgress = Hundred
        /\ Len(calls) >= 6 =>
              /\ calls[6].ret = "Thank you! Your onboarding is complete."
              /\ currentStepIndex = 5
              /\ onboardingSteps = StepsAfter(SubSeq(calls, 1, 5))

\* The sixth call of a fresh engine whose first answer was "Alice".
C12_Witness ==
    /\ fresh
    /\ Len(calls) = 6
    /\ calls[1].input = "Alice"
    /\ last.op = "processUserResponse"
    /\ last.from = 5

\* x <= y on the numbers modelled.
NumLeq(x, y) ==
    IF x.sig = <<>> THEN TRUE
    ELSE IF y.sig = <<>> THEN FALSE
    ELSE IF x.exp # y.exp THEN x.exp < y.exp
    ELSE \/ x.sig = y.sig
         \/ LET k == CHOOSE j \in 1..Precision :
                         /\ x.sig[j] # y.sig[j]
                         /\ \A h \in 1..(j - 1) : x.sig[h] = y.sig[h]
            IN  x.sig[k] < y.sig[k]

\* C13 (state part): getProgress() lies in [0, 100], is the real number
\* 100 * currentStepIndex / len, and is 100 exactly when the engine is complete.
C13_ExactInRange ==
    LET real == RealPercent[currentStepIndex, Len(onboardingSteps)]
    IN  /\ NumLeq(Zero, getProgress)
        /\ NumLeq(getProgress, Hundred)
        /\ real.exact
        /\ getProgress = real.value
        /\ (getProgress = Hundred) <=> isOnboardingComplete

\* C13 (step part): no call but reset() lowers getProgress().
C13_NeverDecreases ==
    last'.op # "reset" => NumLeq(getProgress, getProgress')

\* C13: getProgress() lies in [0, 100], equals 100 * currentStepIndex / len
\* with no rounding, is 100 exactly when isOnboardingComplete(), and never
\* decreases except through reset().
C13_ProgressBounds == []C13_ExactInRange /\ [][C13_NeverDecreases]_vars

\* The call that completes the engine, after a reset() had lowered the progress.
C13_Witness ==
    /\ ~fresh
    /\ last.op \in ProcessOps
    /\ last.from = Len(onboardingSteps) - 1
    /\ getProgress = Hundred

\* C14: while not complete a call stores exactly its input as the answer of
\* the step at the cursor, the empty string included: the step is completed,
\* the cursor moves on by one, and the answer is present, not undefined.
C14_InputStoredVerbatim ==
    (last.op \in ProcessOps /\ last.from < Len(onboardingSteps)) =>
        LET step == onboardingSteps[last.from + 1]
        IN  /\ step.answer # Undefined
            /\ Len(step.answer) = 1
            /\ step.answer[1] = last.arg[1]
            /\ last.arg = Some("") =>
                  /\ currentStepIndex = last.from + 1
                  /\ step.completed = TRUE
                  /\ step.answer = Some("")
                  /\ step.answer # InitialSteps[last.from + 1].answer

\* The padded answer given right after the empty one.
C14_Witness ==
    /\ last.op = "processUserResponse"
    /\ last.from = 1
    /\ last.arg = Some(" Bob ")
    /\ onboardingSteps[1].answer = Some("")
    /\ onboardingSteps[2].answer = Some(" Bob ")

\* C15: no engine operation raises or rejects, for any input and in any
\* reachable state: no call made raised, no call that could be made now would
\* raise or return a rejected promise, and a call made after completion is a
\* no-op that returns normally.
C15_EngineTotal ==
    /\ last.threw = FALSE
    /\ last.op = "processWithAI" => last.ret.promise = "fulfilled"
    /\ ~getCurrentQuestion_raises
    /\ ~processUserResponse_raises
    /\ \A userInput \in Inputs : processWithAI(userInput).ret.promise = "fulfilled"
    /\ (last.op \in ProcessOps /\ last.from = Len(onboardingSteps)) =>
          /\ currentStepIndex = last.from
          /\ Returned(last) = AlreadyComplete

\* processWithAI called with the empty string on an engine already complete.
C15_Witness ==
    /\ Len(calls) = Len(onboardingSteps) + 2
    /\ calls[Len(calls)].input = ""
    /\ last.op = "processWithAI"
    /\ last.from = Len(onboardingSteps)
    /\ last.ret.promise = "fulfilled"

Min(a, b) == IF a <= b THEN a ELSE b

\* C16: m processWithAI calls issued without awaiting one another from cursor i
\* leave the cursor at min(i + m, len) and each non-terminal call's input in
\* its own step, in invocation order, as m processUserResponse calls made one
\* after the other would: the steps are those of the whole log of calls, the
\* completed steps are exactly those below the cursor, and every promise is
\* already fulfilled when it is handed back.
C16_ConcurrentAsSequential ==
    LET i == batch.from
        m == Len(batch.issued)
        n == Len(onboardingSteps)
    IN  /\ currentStepIndex = Min(i + m, n)
        /\ \A k \in 1..m :
              i + k <= n =>
                  /\ onboardingSteps[i + k].completed = TRUE
                  /\ onboardingSteps[i + k].answer = Some(batch.issued[k])
        /\ \A j \in 1..n : onboardingSteps[j].completed <=> (j <= currentStepIndex)
        /\ onboardingSteps = StepsAfter(SubSeq(calls, 1, Min(Len(calls), n)))
        /\ \A k \in 1..Len(batch.pending) : batch.pending[k].promise = "fulfilled"

\* Three calls in flight at once, issued from cursor 3 with different inputs:
\* the third finds the script complete.
C16_Witness ==
    /\ batch.from = 3
    /\ batch.issued = <<"", "Alice", " Bob ">>
    /\ Len(batch.pending) = 3
    /\ currentStepIndex = Len(onboardingSteps)
    /\ batch.pending[3].value = AlreadyComplete

\* The handleStopRecording calls whose processWithAI promise is not delivered yet.
InFlight == {k \in 1..Len(screen.stops) : screen.stops[k].pc = "processWithAI"}

\* C17 (state part): no more processWithAI calls than recordings stopped, no
\* more recordings stopped than started, and never two processWithAI calls in
\* flight.
C17_OncePerUtterance ==
    /\ screen.aiCalls <= screen.turns
    /\ screen.turns <= screen.recordings
    /\ Cardinality(InFlight) <= 1

\* C17 (step part): handleStopRecording called with no active recording, and
\* handleStartRecording called while the screen is uninitialized, speaking or
\* processing, return at once: no recording starts, no processWithAI call is
\* made, the engine and the screen are as they were.
C17_GuardedHandlers ==
    LET start == screen'.ev \in {"handleStartRecording", "handleStartRecording returned"}
        stop == screen'.ev \in {"handleStopRecording", "handleStopRecording returned"}
        busy == ~screen.isInitialized \/ screen.isSpeaking \/ screen.isProcessing
    IN  ((start /\ busy) \/ (stop /\ ~screen.isRecording)) =>
            /\ screen' = [screen EXCEPT !.ev = screen'.ev]
            /\ currentStepIndex' = currentStepIndex
            /\ onboardingSteps' = onboardingSteps

\* C17: the engine is advanced at most once per recording started and then
\* stopped; a stop with no active recording advances nothing; no recording
\* starts while the screen is uninitialized, speaking or processing; two
\* processWithAI calls are never in flight together.
C17_AtMostOncePerUtterance == []C17_OncePerUtterance /\ [][C17_GuardedHandlers]_vars

\* The record button pressed while the second utterance is being processed.
C17_Witness ==
    /\ screen.ev = "handleStartRecording returned"
    /\ screen.isProcessing
    /\ Cardinality(InFlight) = 1
    /\ screen.aiCalls = 2
    /\ screen.turns = 2

\* No handler of the screen is in flight.
Idle ==
    /\ screen.init \in {"done", "failed"}
    /\ screen.starts = <<>>
    /\ screen.stops = <<>>

\* handleStartRecording would get past its guard.
CanRecord == screen.isInitialized /\ ~screen.isSpeaking /\ ~screen.isProcessing

\* C18: when voiceService.initialize, startRecording or stopRecording fails,
\* the engine is as it was when that turn began, no error leaves the handler,
\* and once the handlers have finished isRecording and isProcessing are false
\* and a later utterance can be recorded and submitted.
C18_IOFailureLeavesFlow ==
    /\ screen.escaped = FALSE
    /\ screen.failed # Undefined => EngineNow = screen.failed[1]
    /\ (screen.failed # Undefined /\ Idle) =>
          /\ screen.isRecording = FALSE
          /\ screen.isProcessing = FALSE
          /\ CanRecord

\* The failure is one of the network: its message includes one of the two
\* phrases the catch block looks for.
NetworkFailure(message) ==
    Includes(message, "Failed to fetch") \/ Includes(message, "Network request failed")

\* The message carries the remediation guidance.
HasGuidance(message) == Includes(message, "Please ensure:")

C20_FailureIsReported ==
    hook'.ev \in {"TokenRejects", "RoomConnectRejects"} =>
        /\ hook'.settled = "fulfilled"
        /\ hook'.state.connectionState = "error"
        /\ hook'.state.error # Null
        /\ Len(hook'.state.error) = 1
        /\ hook'.state.isConnected = hook.state.isConnected

\* C20 (retry): a connect() call clears error, moves to "connecting" and
\* leaves isConnected as it was.
C20_ConnectClearsError ==
    hook'.ev = "connect" =>
        /\ hook'.state.error = Null
        /\ hook'.state.connectionState = "connecting"
        /\ hook'.state.isConnected = hook.state.isConnected

\* C20: a failed token request or media-session connect never makes connect()
\* reject: it gives connectionState "error" with a non-null error and no
\* isConnected set by that attempt; a later connect() clears error and moves
\* to "connecting".
C20_ConnectNeverRejects == [][C20_FailureIsReported /\ C20_ConnectClearsError]_vars

\* The second attempt, called after the first had failed, under way.
C20_Witness ==
    /\ hook.connects = 2
    /\ hook.failures = 1
    /\ hook.ev = "connect"
    /\ hook.settled = "fulfilled"
    /\ Len(hook.attempts) = 1
    /\ hook.state.connectionState = "connecting"
    /\ hook.state.error = Null
    /\ ~hook.state.isConnected


(***************************************************************************)
(* The connection of the hook.                                             *)
(***************************************************************************)

\* The values of the connectionState union.
ConnectionStates == {"connecting", "connected", "reconnecting", "disconnected", "error"}

\* C21: In every reachable state of the hook, under any ordering of connect
\* and disconnect calls and of the room events Connected, Disconnected,
\* Reconnecting and Reconnected, connectionState is one of 'connecting',
\* 'connected', 'reconnecting', 'disconnected' and 'error'.
C21_ConnectionStateInUnion ==
    hook.state.connectionState \in ConnectionStates

\* A room that reconnects after a connect() call, with a disconnect() call
\* awaited.
C21_Witness ==
    /\ hook.ev = "Reconnecting"
    /\ hook.state.connectionState = "reconnecting"
    /\ hook.resolved
    /\ hook.closing

\* How many connect() calls in flight have called livekitService.connect.
Invoked(h) ==
    Cardinality({k \in 1..Len(h.attempts) : h.attempts[k].connectWith # Undefined})

\* livekitService.connect is called once the token request has resolved, and
\* with what that request gave.
C22_OwnToken ==
    \A k \in 1..Len(hook.attempts) :
        LET attempt == hook.attempts[k]
        IN  /\ (attempt.pc = "room") = (attempt.connectWith # Undefined)
            /\ attempt.connectWith # Undefined =>
                   /\ attempt.token # Undefined
                   /\ attempt.connectWith = attempt.token

\* The hook reports 'connected' only once a livekitService.connect call has
\* resolved.
C22_ConnectedAfterResolve ==
    hook.state.connectionState = "connected" => hook.resolved

\* A failed token request ends the connect() call without a call of
\* livekitService.connect, and the call that resolves is one that was made.
C22_NoConnectAfterFailedToken ==
    /\ hook'.ev = "TokenRejects" /\ hook' # hook =>
           /\ Invoked(hook') = Invoked(hook)
           /\ Len(hook'.attempts) = Len(hook.attempts) - 1
           /\ <<hook'.room, hook'.gen, hook'.listeners>> = <<hook.room, hook.gen, hook.listeners>>
           /\ hook'.state.connectionState = "error"
    /\ hook'.ev = "RoomConnectResolves" /\ hook' # hook =>
           Invoked(hook') = Invoked(hook) - 1

StartsWith(log, shown) ==
    /\ Len(shown) <= Len(log)
    /\ SubSeq(log, 1, Len(shown)) = shown

UserMessage == [text |-> SimulatedUserInput, isUser |-> TRUE]

\* C23 (state part): while the engine's reply to an utterance is awaited, the
\* message shown last is that utterance, and the engine has been advanced
\* once for every utterance submitted to it.
C23_ReplyAwaitedAfterUtterance ==
    /\ InFlight # {} =>
           /\ Len(screen.messages) >= 2
           /\ screen.messages[Len(screen.messages)] = UserMessage
    /\ currentStepIndex = Min(screen.aiCalls, Len(InitialSteps))

\* C23 (step part): stopRecording resolving appends the user's message and
\* submits it to the engine; the engine's reply delivered appends one agent
\* message with the value the engine returned for that utterance and shows
\* the progress the engine reports after it; no step removes or reorders a
\* message shown.
C23_OneUserThenOneAgentMessage ==
    /\ StartsWith(screen'.messages, screen.messages)
    /\ screen'.aiCalls = screen.aiCalls + 1 =>
           /\ screen'.messages = Append(screen.messages, UserMessage)
           /\ \E k \in 1..Len(screen.stops) :
                  /\ screen.stops[k].pc = "stopRecording"
                  /\ screen'.stops[k].pc = "processWithAI"
                  /\ screen'.stops[k].awaits = Some(processWithAI(SimulatedUserInput).ret)
    /\ \A k \in InFlight :
           /\ screen.stops[k].awaits[1].promise = "fulfilled"
           /\ screen'.stops # screen.stops
           => /\ screen'.messages = Append(screen.messages,
                                           [text |-> screen.stops[k].awaits[1].value,
                                            isUser |-> FALSE])
              /\ screen'.progress = getProgress
              /\ <<currentStepIndex', onboardingSteps'>> = <<currentStepIndex, onboardingSteps>>
    /\ Len(screen'.messages) > Len(screen.messages) =>
           \/ screen'.aiCalls = screen.aiCalls + 1
           \/ InFlight # {}
           \/ screen.messages = <<>>

\* C23: Each utterance VoiceOnboardingScreen processes successfully appends
\* exactly one user message followed by exactly one agent message whose text
\* is the value the engine returned for that utterance, and sets the progress
\* shown to the engine's getProgress() taken after that submission; messages
\* are never removed or reordered.
C23_DriverLoop ==
    /\ []C23_ReplyAwaitedAfterUtterance
    /\ [][C23_OneUserThenOneAgentMessage]_vars

\* The second utterance processed: welcome, two utterances and two replies
\* shown, and the progress of two steps of five.
C23_Witness ==
    /\ screen.ev = "ProcessWithAIDelivered"
    /\ Len(screen.messages) = 5
    /\ screen.messages[4] = UserMessage
    /\ screen.messages[5] = [text |-> InitialSteps[3].question, isUser |-> FALSE]
    /\ screen.aiCalls = 2
    /\ screen.progress = Percent[2, 5]


(***************************************************************************)
(* connect() and disconnect() of the hook overlapping.                     *)
(***************************************************************************)

\* No asynchronous step of the hook is pending.
Quiet == hook.attempts = <<>> /\ ~hook.closing

\* C24: If disconnect() is called while a connect() call is in flight
\* (awaiting the token or room.connect), then once every pending step has
\* finished the service holds no connected room and the hook reports neither
\* isConnected nor the connectionState 'connected'.
C24_DisconnectWinsTheRace ==
    hook.raced /\ Quiet =>
        /\ hook.room # "connected"
        /\ ~hook.state.isConnected
        /\ hook.state.connectionState # "connected"


\* C25: In every reachable state of the hook, isConnected is true exactly
\* when connectionState is 'connected', whatever the sequence of connects
\* that succeed or fail, disconnect calls and room connection events,
\* connect() called again while connected and a failed reconnect included.
C25_IsConnectedIffConnected ==
    hook.state.isConnected = (hook.state.connectionState = "connected")


(***************************************************************************)
(* Data messages.                                                          *)
(***************************************************************************)

\* C26: Each inbound data message is delivered to the message callback at
\* most once: the room's listeners are set up at most once per Room object,
\* for any sequence of connect() and disconnect() calls, connect() called
\* twice with no disconnect() between included.
C26_DeliveredAtMostOnce ==
    /\ hook.listeners <= 1
    /\ Len(hook.state.messages) <= hook.accepted

\* What is forwarded according to the description of the handler: JSON whose
\* type is 'transcription' or 'agent_response'.
IsAgentMessage(payload) ==
    /\ payload.json = "object"
    /\ payload.type \in {Some("transcription"), Some("agent_response")}

\* The message a forwarded payload is to give, isFinal true when absent.
AgentMessage(payload) ==
    [text |-> payload.text, isFinal |-> payload.isFinal # Some(FALSE)]

\* The messages a step has added at the end of the list.
Added ==
    SubSeq(hook'.state.messages, Len(hook.state.messages) + 1, Len(hook'.state.messages))

\* C27 (step part): a payload received is forwarded to the message callback
\* exactly when it is JSON of type 'transcription' or 'agent_response', with
\* isFinal true when absent; any other payload changes nothing, no error
\* escapes the handler, and the listeners stay in place for later payloads.
C27_ForwardedIffAgentMessage ==
    hook'.received = hook.received + 1 =>
        LET payload == hook'.data[1]
        IN  /\ StartsWith(hook'.state.messages, hook.state.messages)
            /\ IF IsAgentMessage(payload)
               THEN /\ Added # <<>>
                    /\ \A i \in 1..Len(Added) : Added[i] = AgentMessage(payload)
               ELSE Added = <<>>
            /\ hook'.state = [hook.state EXCEPT !.messages = hook'.state.messages]
            /\ ~dataReceived(payload).escaped
            /\ <<hook'.room, hook'.listeners>> = <<hook.room, hook.listeners>>

\* C27: Inbound data handling of LiveKitVoiceService: a payload is forwarded
\* to the message callback if and only if it decodes to JSON whose type is
\* 'transcription' or 'agent_response' (isFinal true when absent); payloads
\* of another type and payloads that fail to decode or parse are dropped
\* with no callback and no error escaping, and later messages are still
\* processed.
C27_InboundDataHandling == [][C27_ForwardedIffAgentMessage]_vars

\* A transcription without isFinal forwarded, by the one listener of the
\* room, after a payload that was dropped.
C27_Witness ==
    /\ hook.ev = "DataReceived"
    /\ hook.received = 2
    /\ hook.accepted = 1
    /\ hook.listeners = 1
    /\ hook.data = Some(Payload("object", Some("transcription"), Some("Hello"), Undefined))
    /\ hook.state.messages = <<[text |-> Some("Hello"), isFinal |-> TRUE]>>

\* C28 (step part): every step of the hook keeps the messages stored, in
\* their order, and a payload that is an agent message puts it at the end.
C28_AppendedAtTheEnd ==
    /\ StartsWith(hook'.state.messages, hook.state.messages)
    /\ hook'.accepted = hook.accepted + 1 =>
           /\ Added # <<>>
           /\ Added[Len(Added)] = AgentMessage(hook'.data[1])
    /\ hook'.accepted = hook.accepted => Added = <<>>

\* C28: The hook's messages list is append-only and keeps the order: every
\* agent message accepted is appended at the end in order of arrival, no
\* operation (connect, disconnect, connection events, errors, microphone
\* toggles) removes, reorders or clears stored messages, and concurrent
\* state updates never lose a message.
C28_MessagesAppendOnly ==
    /\ [](Len(hook.state.messages) >= hook.accepted)
    /\ [][C28_AppendedAtTheEnd]_vars

\* Two different messages stored in order of arrival, kept through a failed
\* connect(), a disconnect() and a microphone toggle in flight.
C28_Witness ==
    /\ hook.accepted = 2
    /\ Len(hook.state.messages) = 2
    /\ hook.state.messages[1] = [text |-> Some("Welcome"), isFinal |-> FALSE]
    /\ hook.state.messages[2] = [text |-> Some("Hello"), isFinal |-> TRUE]
    /\ hook.failures > 0
    /\ hook.room = "none"
    /\ hook.toggles # <<>>


(***************************************************************************)
(* The service without a room, and the microphone.                         *)
(***************************************************************************)

\* What the service holds: the room, its listeners and its microphone.
Service == <<hook.room, hook.gen, hook.listeners, hook.mic>>

\* C29 (state part): a service that holds no room reports 'disconnected' and
\* a microphone that is off.
C29_NoRoomReadsDisconnected ==
    hook.room = "none" =>
        /\ getConnectionState = "disconnected"
        /\ ~isMicrophoneEnabled
        /\ hook.listeners = 0

\* C29 (step part): disconnect() completing leaves the service without a
\* room; disconnect() of a service without a room changes nothing in it;
\* sendMessage and setMicrophoneEnabled without a room complete without
\* publishing, without a change and without an error; connect() without a
\* room makes a new Room, not connected and without listeners.
C29_DisconnectDropsTheRoom ==
    /\ hook.closing /\ ~hook'.closing =>
           IF hook.closingHeld
           THEN /\ hook'.room = "none"
                /\ getConnectionState' = "disconnected"
                /\ ~isMicrophoneEnabled'
           ELSE Service' = Service
    /\ ~hook.closing /\ hook'.closing /\ hook.room = "none" =>
           /\ Service' = Service
           /\ ~hook'.closingHeld
    /\ /\ hook'.ev \in {"sendMessage, no room", "sendMessage published", "sendMessage failed"}
       /\ hook' # hook
       /\ hook.room = "none"
       => hook' = [hook EXCEPT !.ev = "sendMessage, no room"]
    /\ /\ Len(hook'.toggles) < Len(hook.toggles)
       /\ \A k \in 1..Len(hook.toggles) : hook.toggles[k].target = "none"
       => /\ Service' = Service
          /\ hook'.ev = "ToggleResolves, no room"
    /\ hook'.ev = "TokenResolves" /\ hook' # hook /\ hook.room = "none" =>
           /\ hook'.room = "unconnected"
           /\ hook'.gen = hook.gen + 1
           /\ hook'.listeners = 0
           /\ ~hook'.mic

\* C29: After LiveKitVoiceService.disconnect() completes the service holds
\* no room: getConnectionState() returns 'disconnected', isMicrophoneEnabled()
\* returns false, sendMessage and setMicrophoneEnabled are no-ops that neither
\* publish nor throw, disconnect() of a disconnected service is a no-op, and
\* a later connect() makes a fresh Room and works again.
C29_ServiceWithoutRoom ==
    /\ []C29_NoRoomReadsDisconnected
    /\ [][C29_DisconnectDropsTheRoom]_vars

\* Connected again, on a second Room with its listeners set up once, after a
\* disconnect() that dropped a connected room with the microphone on.
C29_Witness ==
    /\ hook.ev = "RoomConnectResolves"
    /\ hook.gen = 2
    /\ hook.room = "connected"
    /\ hook.listeners = 1
    /\ ~hook.mic
    /\ hook.state.isMicEnabled
    /\ hook.state.isConnected
    /\ getConnectionState = "connected"

\* C30: The hook's isMicEnabled equals the microphone state of the room
\* whenever no toggle is in flight: toggleMicrophone flips isMicEnabled only
\* when the command took effect and leaves it when the command fails, two
\* toggles issued back to back give two flips, and isMicEnabled is never
\* true while there is no connected room (after disconnect or a Disconnected
\* event, for instance).
C30_MicMatchesRoom ==
    /\ hook.toggles = <<>> => hook.state.isMicEnabled = isMicrophoneEnabled
    /\ hook.state.isMicEnabled => hook.room = "connected"


(***************************************************************************)
(* The endpoint of the media session.                                      *)
(***************************************************************************)

AgentTexts ==
    LET shown == {i \in 1..Len(screen.messages) : ~screen.messages[i].isUser}
    IN  [i \in shown |-> screen.messages[i].text]

\* The prompt shown last is the engine's current prompt (once the script is
\* complete the engine words its closing message in more than one way).
PromptAgrees ==
    /\ DOMAIN AgentTexts # {}
    /\ AgentTexts[CHOOSE i \in DOMAIN AgentTexts : \A j \in DOMAIN AgentTexts : j <= i]
           = getCurrentQuestion

\* The progress shown is the engine's.
ProgressAgrees == screen.progress = getProgress

\* No utterance is being processed on a screen that has shown its welcome.
Settled == screen.isInitialized /\ screen.stops = <<>>

\* C32: The progress and the prompt VoiceOnboardingScreen shows agree with
\* the shared engine whenever no utterance is being processed, also after
\* the screen is unmounted and mounted again: on every mount the first
\* message shown is the engine's current prompt and the progress shown is
\* the engine's getProgress().
C32_ScreenAgreesWithEngine ==
    Settled =>
        /\ ~isOnboardingComplete => PromptAgrees
        /\ ProgressAgrees


(***************************************************************************)
(* VoiceService.                                                           *)
(***************************************************************************)

\* C33: Every VoiceService.speak call resolves in the end and never rejects,
\* whether its utterance finishes, fails or is cut short by a later speak
\* call; and isCurrentlySpeaking() is true exactly while an utterance
\* started by speak is being spoken.  Stated on states: a speak call whose
\* promise is pending has an utterance from which a callback can still come,
\* and, with no stopSpeaking call in flight, isSpeaking tells whether an
\* utterance is being spoken.
C33_SpeakResolves ==
    /\ \A k \in 1..Len(voice.speaks) :
           /\ voice.speaks[k].promise \in {"pending", "resolved"}
           /\ voice.speaks[k].promise = "pending" =>
                  voice.speaks[k].utterance \in {"speaking", "ending"}
    /\ voice.stopping = 0 =>
           voice.isSpeaking = (\E k \in 1..Len(voice.speaks) :
                                   voice.speaks[k].utterance = "speaking")


\* startRecording() was called.
StartCalled == voice'.ev = "startRecording"

\* stopRecording() was called.
StopCalled == voice'.ev \in {"stopRecording", "stopRecording returned null"}

\* The call that voice'.done tells of settled in this step.
SettledBy(step) == voice'.ev = step /\ Len(voice'.tasks) < Len(voice.tasks)

\* A recording held when startRecording is called is stopped and unloaded
\* first, and is no longer prepared when the new one is held.
C34_StartStopsTheOldOne ==
    /\ StartCalled =>
           LET task == voice'.tasks[Len(voice'.tasks)]
           IN  IF voice.recording = Null
               THEN task.pc = "create"
               ELSE task.pc = "stopAndUnload" /\ task.target = voice.recording[1]
    /\ SettledBy("CreateResolves") =>
           /\ voice'.recording # Null
           /\ voice'.recording # voice'.done.held
           /\ voice'.done.held # Null => voice'.done.held[1] \notin voice'.active

\* stopRecording() with no recording held returns null and changes nothing.
C34_StopWithNoneReturnsNull ==
    StopCalled /\ voice.recording = Null =>
        /\ voice'.done = [op |-> "stopRecording", outcome |-> "resolved",
                          value |-> Null, held |-> Null]
        /\ voice' = [voice EXCEPT !.done = voice'.done, !.ev = voice'.ev]

\* stopRecording() with a recording held stops it, clears the recording
\* held and returns its URI, unless stopping it fails.
C34_StopReturnsTheURI ==
    /\ StopCalled /\ voice.recording # Null =>
           LET task == voice'.tasks[Len(voice'.tasks)]
           IN  task.pc = "stopAndUnload" /\ task.target = voice.recording[1]
    /\ SettledBy("StopAndUnloadResolves") /\ voice'.done.op = "stopRecording" =>
           /\ voice'.done.outcome = "resolved"
           /\ voice'.done.value = Some(getURI(voice'.done.held[1]))
           /\ voice'.recording = Null
           /\ voice'.done.held[1] \notin voice'.active

\* A failure of createAsync or of stopAndUnloadAsync is rethrown.
C34_FailuresAreRethrown ==
    SettledBy("CreateRejects") \/ SettledBy("StopAndUnloadRejects") =>
        /\ voice'.done.outcome = "rejected"
        /\ voice'.done.value = Some("Error")

\* At most one recording is prepared, and the one held is no other.
C34_AtMostOneActive ==
    /\ Cardinality(voice.active) <= 1
    /\ voice.recording # Null /\ voice.tasks = <<>> => voice.active = {voice.recording[1]}

\* C34: VoiceService holds at most one active recording: startRecording
\* while a recording exists stops and unloads it before creating the new
\* one; stopRecording returns null and changes nothing when there is no
\* recording, and otherwise stops it, clears the recording held and returns
\* its URI; a failure of creating or stopping is rethrown to the caller.
C34_OneRecording ==
    /\ []C34_AtMostOneActive
    /\ [][/\ C34_StartStopsTheOldOne
          /\ C34_StopWithNoneReturnsNull
          /\ C34_StopReturnsTheURI
          /\ C34_FailuresAreRethrown]_vars

====
